---- MODULE Spec2Model ----
(***************************************************************************)
(* Global Cache integration driver: the infrared code translator           *)
(* (util.js), the device communication session (device.js) and the         *)
(* device configuration store (config.js).                                 *)
(*                                                                         *)
(* JavaScript strings that the code takes apart or builds (the PRONTO      *)
(* code, the sendir payload) are sequences of one-character strings.       *)
(***************************************************************************)
EXTENDS Integers, Sequences, FiniteSets, TLC

(***************************************************************************)
(* JavaScript values                                                       *)
(***************************************************************************)

\* Number values that are not integers: parseInt of a token without digits,
\* and a division by zero.  No parsed token is negative (the alphabet has no
\* sign), so two negative numbers stand for them.
NaN == -1
Infinity == -2

\* A repeat argument that was not passed (undefined).  `undefined > 0` is
\* false, like the comparison of this number.
undefined == -3

DecDigits == <<"0", "1", "2", "3", "4", "5", "6", "7", "8", "9">>
HexDigits == DecDigits \o <<"A", "B", "C", "D", "E", "F">>

\* The value of character c in the given radix, or NaN when c is no digit of it.
DigitValue(c, radix) ==
  LET hits == {i \in 1..radix : HexDigits[i] = c}
  IN IF hits = {} THEN NaN ELSE (CHOOSE i \in hits : TRUE) - 1

RECURSIVE ParseDigits(_, _, _, _)
\* The number read from the longest prefix of str[i..] made of digits of the
\* radix, continuing from acc (NaN while no digit was read).
ParseDigits(str, i, radix, acc) ==
  IF i > Len(str) \/ DigitValue(str[i], radix) = NaN
  THEN acc
  ELSE ParseDigits(str, i + 1, radix,
                   (IF acc = NaN THEN 0 ELSE acc * radix) + DigitValue(str[i], radix))

\* parseInt(str, radix); parseInt(str) reads decimal (no token here starts with 0x).
parseInt(str, radix) == ParseDigits(str, 1, radix, NaN)

RECURSIVE DecimalString(_)
\* String(n) of a number.
DecimalString(n) ==
  IF n = NaN THEN <<"N", "a", "N">>
  ELSE IF n = Infinity THEN <<"I", "n", "f", "i", "n", "i", "t", "y">>
  ELSE IF n < 10 THEN <<DecDigits[n + 1]>>
  ELSE DecimalString(n \div 10) \o <<DecDigits[(n % 10) + 1]>>

RECURSIVE split(_, _)
\* str.split(/[ ,]/): the pieces between the separators, empty pieces kept.
split(str, cur) ==
  IF str = <<>> THEN <<cur>>
  ELSE IF Head(str) \in {" ", ","} THEN <<cur>> \o split(Tail(str), <<>>)
  ELSE split(Tail(str), Append(cur, Head(str)))

RECURSIVE join(_, _)
\* list.join(sep) of a list of numbers.
join(list, sep) ==
  IF list = <<>> THEN <<>>
  ELSE IF Len(list) = 1 THEN DecimalString(list[1])
  ELSE DecimalString(list[1]) \o <<sep>> \o join(Tail(list), sep)

\* list.slice(k)
slice(list, k) == IF k >= Len(list) THEN <<>> ELSE SubSeq(list, k + 1, Len(list))

\* list[k] of a JavaScript array (zero based); NaN stands for a missing element,
\* which arithmetic and comparisons treat alike.
At(list, k) == IF k + 1 <= Len(list) THEN list[k + 1] ELSE NaN

(***************************************************************************)
(* Code translator                                                         *)
(***************************************************************************)

\* Numerator and period factor of 1000000 / (period * 0.241246), scaled by 10^6.
FreqNumeratorDigits == <<1, 0, 0, 0, 0, 0, 0, 0, 0, 0, 0, 0, 0>>
PeriodMicros == 241246

RECURSIVE LongDiv(_, _, _, _)
\* Long division of the number with decimal digits ds[i..] by d, from
\* quotient q and remainder r: <<quotient, remainder>>.
LongDiv(ds, i, d, qr) ==
  IF i > Len(ds) THEN qr
  ELSE LET r == qr[2] * 10 + ds[i]
       IN LongDiv(ds, i + 1, d, <<qr[1] * 10 + (r \div d), r % d>>)

\* Mutant of Frequency: the quotient is cut off, not rounded.
Frequency_CutOff(period) ==
  IF period = NaN THEN NaN
  ELSE IF period = 0 THEN Infinity
  ELSE LET d  == period * PeriodMicros
           qr == LongDiv(FreqNumeratorDigits, 1, d, <<0, 0>>)
       IN qr[1]

\* Math.round(1000000 / (period * 0.241246))
Frequency(period) ==
  IF period = NaN THEN NaN
  ELSE IF period = 0 THEN Infinity
  ELSE LET d  == period * PeriodMicros
           qr == LongDiv(FreqNumeratorDigits, 1, d, <<0, 0>>)
       IN IF 2 * qr[2] >= d THEN qr[1] + 1 ELSE qr[1]

\* A translator that takes the offset from the second duration alone.
convertProntoToGlobalCache_OffsetFromSecond(prontoHex, repeatCount) ==
  LET hexValues == split(prontoHex, <<>>)
      rest      == Tail(hexValues)
      durations == [i \in 1..Len(rest) |-> parseInt(rest[i], 16)]
      frequency == Frequency(At(durations, 0))
      preambleOffset ==
        IF At(durations, 1) > 0 THEN At(durations, 1) * 2 + 1 ELSE 1
  IN IF parseInt(hexValues[1], 10) # 0
     THEN [threw |-> TRUE, value |-> <<>>]
     ELSE [threw |-> FALSE,
           value |-> DecimalString(frequency) \o <<",">>
                       \o DecimalString(repeatCount) \o <<",">>
                       \o DecimalString(preambleOffset) \o <<",">>
                       \o join(slice(durations, 3), ",")]

\* A translator that drops the duration after the first three.
convertProntoToGlobalCache_SkipsFour(prontoHex, repeatCount) ==
  LET hexValues == split(prontoHex, <<>>)
      rest      == Tail(hexValues)
      durations == [i \in 1..Len(rest) |-> parseInt(rest[i], 16)]
      frequency == Frequency(At(durations, 0))
      preambleOffset ==
        IF At(durations, 1) > 0 /\ At(durations, 2) > 0
        THEN At(durations, 1) * 2 + 1
        ELSE 1
  IN IF parseInt(hexValues[1], 10) # 0
     THEN [threw |-> TRUE, value |-> <<>>]
     ELSE [threw |-> FALSE,
           value |-> DecimalString(frequency) \o <<",">>
                       \o DecimalString(repeatCount) \o <<",">>
                       \o DecimalString(preambleOffset) \o <<",">>
                       \o join(slice(durations, 4), ",")]

\* convertProntoToGlobalCache(prontoHex, repeatCount): [threw, value].
convertProntoToGlobalCache(prontoHex, repeatCount) ==
  LET hexValues == split(prontoHex, <<>>)
      rest      == Tail(hexValues)
      durations == [i \in 1..Len(rest) |-> parseInt(rest[i], 16)]
      frequency == Frequency(At(durations, 0))
      preambleOffset ==
        IF At(durations, 1) > 0 /\ At(durations, 2) > 0
        THEN At(durations, 1) * 2 + 1
        ELSE 1
  IN IF parseInt(hexValues[1], 10) # 0
     THEN [threw |-> TRUE, value |-> <<>>]
     ELSE [threw |-> FALSE,
           value |-> DecimalString(frequency) \o <<",">>
                       \o DecimalString(repeatCount) \o <<",">>
                       \o DecimalString(preambleOffset) \o <<",">>
                       \o join(slice(durations, 3), ",")]

(***************************************************************************)
(* Inputs                                                                  *)
(***************************************************************************)

\* "0000 006D 0000 0002 0010 0679": space separated, no repeat sequence.
ProntoSpaces ==
  <<"0", "0", "0", "0", " ", "0", "0", "6", "D", " ", "0", "0", "0", "0", " ",
    "0", "0", "0", "2", " ", "0", "0", "1", "0", " ", "0", "6", "7", "9">>

\* "0000,006D,0001,0001,0155,00AB": comma separated, with a repeat sequence.
ProntoCommas ==
  <<"0", "0", "0", "0", ",", "0", "0", "6", "D", ",", "0", "0", "0", "1", ",",
    "0", "0", "0", "1", ",", "0", "1", "5", "5", ",", "0", "0", "A", "B">>

\* "0100 006D 0000 0001 0010 0020": learned format 0100: not a raw code.
ProntoNotRaw ==
  <<"0", "1", "0", "0", " ", "0", "0", "6", "D", " ", "0", "0", "0", "0", " ",
    "0", "0", "0", "1", " ", "0", "0", "1", "0", " ", "0", "0", "2", "0">>

\* The codes and the repeat counts the translator is applied to, and its
\* result for each (the translator is a pure function: the sessions look
\* its result up here).
Codes == {ProntoSpaces, ProntoCommas, ProntoNotRaw}
RepeatCounts == {1, 2}
Translated ==
  [pronto \in Codes, repeatCount \in RepeatCounts |->
     convertProntoToGlobalCache(pronto, repeatCount)]

\* Output port addresses (module:port) a caller names.
Ports == {"1:1", "1:2"}

\* Messages a caller hands to send().
RawMessages == {"stopir,1:1"}

\* Device ids; a session is kept per device id.
Sessions == {"gc1", "gc2"}

(***************************************************************************)
(* State                                                                   *)
(***************************************************************************)

VARIABLES
  irId,            \* GlobalCacheDevice.#irId, per session
  lastSendIrPort,  \* GlobalCacheDevice.#lastSendIrPort, per session
  lastSendIr,      \* GlobalCacheDevice.#lastSendIr, per session
  tx,              \* messages the last call handed to #client.send, in order
  lastCall,        \* history, per session: what its last call was:
                   \*   "none", "raw" (send), "threw" (sendPronto that threw),
                   \*   "ir" (sendPronto), "irAgain" (sendPronto with the
                   \*   arguments of the sendPronto that was the call before)
  lastIr           \* history, per session: the last infrared message it sent

sessionVars == <<irId, lastSendIrPort, lastSendIr, tx, lastCall, lastIr>>

\* No infrared message sent yet.
NoSend == [sent |-> FALSE]

\* Largest command id of the sendir command.
MaxIrId == 65535

InitSession ==
  /\ irId = [s \in Sessions |-> 1]
  /\ lastSendIrPort = [s \in Sessions |-> ""]
  /\ lastSendIr = [s \in Sessions |-> <<>>]
  /\ tx = <<>>
  /\ lastCall = [s \in Sessions |-> "none"]
  /\ lastIr = [s \in Sessions |-> NoSend]

(***************************************************************************)
(* Device communication session                                            *)
(***************************************************************************)

\* Mutant of NextIrId: the wrap sets the id to 0.
NextIrId_WrapsToZero(id) == IF id + 1 > MaxIrId THEN 0 ELSE id + 1

\* The id after `this.#irId += 1` and the wrap that follows it.
NextIrId(id) == IF id + 1 > MaxIrId THEN 1 ELSE id + 1


\* Mutant of send: the last infrared payload is kept.
send_KeepsMemory(s, data) ==
  /\ tx' = <<[session |-> s, msg |-> <<data>>]>>
  /\ lastCall' = [lastCall EXCEPT ![s] = "raw"]
  /\ UNCHANGED <<irId, lastSendIrPort, lastSendIr, lastIr>>

\* send(data) of session s.
send(s, data) ==
  /\ lastSendIr' = [lastSendIr EXCEPT ![s] = <<>>]
  /\ tx' = <<[session |-> s, msg |-> <<data>>]>>
  /\ lastCall' = [lastCall EXCEPT ![s] = "raw"]
  /\ UNCHANGED <<irId, lastSendIrPort, lastIr>>

\* The call repeats the arguments of the session's previous call, a sendPronto.
SameCallAgain(s, port, pronto, repeat) ==
  /\ lastCall[s] \in {"ir", "irAgain"}
  /\ lastIr[s].port = port
  /\ lastIr[s].pronto = pronto
  /\ lastIr[s].repeat = repeat

\* Mutant of sendPronto: the comparison with the last send leaves out the port.
sendPronto_IgnoresPort(s, port, pronto, repeat) ==
  LET conv    == Translated[pronto, IF repeat > 0 THEN repeat ELSE 1]
      sendIr  == conv.value
      changed == lastSendIr[s] # sendIr
      id      == IF changed THEN (IF irId[s] + 1 > MaxIrId THEN 1 ELSE irId[s] + 1)
                 ELSE irId[s]
  IN IF conv.threw
     THEN /\ tx' = <<>>
          /\ lastCall' = [lastCall EXCEPT ![s] = "threw"]
          /\ UNCHANGED <<irId, lastSendIrPort, lastSendIr, lastIr>>
     ELSE /\ lastSendIrPort' = [lastSendIrPort EXCEPT ![s] = IF changed THEN port ELSE @]
          /\ lastSendIr' = [lastSendIr EXCEPT ![s] = IF changed THEN sendIr ELSE @]
          /\ irId' = [irId EXCEPT ![s] = id]
          /\ tx' = <<[session |-> s, msg |-> <<"sendir", port, id, sendIr>>]>>
          /\ lastCall' = [lastCall EXCEPT ![s] =
                            IF SameCallAgain(s, port, pronto, repeat)
                            THEN "irAgain" ELSE "ir"]
          /\ lastIr' = [lastIr EXCEPT ![s] =
                          [sent |-> TRUE, port |-> port, pronto |-> pronto,
                           repeat |-> repeat, payload |-> sendIr, id |-> id]]

\* Mutant of sendPronto: the code is translated with the repeat count 1.
sendPronto_RepeatOnce(s, port, pronto, repeat) ==
  LET conv    == Translated[pronto, 1]
      sendIr  == conv.value
      changed == lastSendIrPort[s] # port \/ lastSendIr[s] # sendIr
      id      == IF changed THEN NextIrId(irId[s]) ELSE irId[s]
  IN IF conv.threw
     THEN /\ tx' = <<>>
          /\ lastCall' = [lastCall EXCEPT ![s] = "threw"]
          /\ UNCHANGED <<irId, lastSendIrPort, lastSendIr, lastIr>>
     ELSE /\ lastSendIrPort' = [lastSendIrPort EXCEPT ![s] = IF changed THEN port ELSE @]
          /\ lastSendIr' = [lastSendIr EXCEPT ![s] = IF changed THEN sendIr ELSE @]
          /\ irId' = [irId EXCEPT ![s] = id]
          /\ tx' = <<[session |-> s, msg |-> <<"sendir", port, id, sendIr>>]>>
          /\ lastCall' = [lastCall EXCEPT ![s] =
                            IF SameCallAgain(s, port, pronto, repeat)
                            THEN "irAgain" ELSE "ir"]
          /\ lastIr' = [lastIr EXCEPT ![s] =
                          [sent |-> TRUE, port |-> port, pronto |-> pronto,
                           repeat |-> repeat, payload |-> sendIr, id |-> id]]

\* Mutant of sendPronto: a code that does not translate clears the memory of
\* the last infrared send.
sendPronto_ThrowForgets(s, port, pronto, repeat) ==
  LET conv    == Translated[pronto, IF repeat > 0 THEN repeat ELSE 1]
      sendIr  == conv.value
      changed == lastSendIrPort[s] # port \/ lastSendIr[s] # sendIr
      id      == IF changed THEN NextIrId(irId[s]) ELSE irId[s]
  IN IF conv.threw
     THEN /\ tx' = <<>>
          /\ lastCall' = [lastCall EXCEPT ![s] = "threw"]
          /\ lastSendIr' = [lastSendIr EXCEPT ![s] = <<>>]
          /\ UNCHANGED <<irId, lastSendIrPort, lastIr>>
     ELSE /\ lastSendIrPort' = [lastSendIrPort EXCEPT ![s] = IF changed THEN port ELSE @]
          /\ lastSendIr' = [lastSendIr EXCEPT ![s] = IF changed THEN sendIr ELSE @]
          /\ irId' = [irId EXCEPT ![s] = id]
          /\ tx' = <<[session |-> s, msg |-> <<"sendir", port, id, sendIr>>]>>
          /\ lastCall' = [lastCall EXCEPT ![s] =
                            IF SameCallAgain(s, port, pronto, repeat)
                            THEN "irAgain" ELSE "ir"]
          /\ lastIr' = [lastIr EXCEPT ![s] =
                          [sent |-> TRUE, port |-> port, pronto |-> pronto,
                           repeat |-> repeat, payload |-> sendIr, id |-> id]]

\* Mutant of sendPronto: one id counter for all the sessions.
sendPronto_SharedCounter(s, port, pronto, repeat) ==
  LET conv    == Translated[pronto, IF repeat > 0 THEN repeat ELSE 1]
      sendIr  == conv.value
      changed == lastSendIrPort[s] # port \/ lastSendIr[s] # sendIr
      id      == IF changed THEN NextIrId(irId[s]) ELSE irId[s]
  IN IF conv.threw
     THEN /\ tx' = <<>>
          /\ lastCall' = [lastCall EXCEPT ![s] = "threw"]
          /\ UNCHANGED <<irId, lastSendIrPort, lastSendIr, lastIr>>
     ELSE /\ lastSendIrPort' = [lastSendIrPort EXCEPT ![s] = IF changed THEN port ELSE @]
          /\ lastSendIr' = [lastSendIr EXCEPT ![s] = IF changed THEN sendIr ELSE @]
          /\ irId' = [o \in Sessions |-> id]
          /\ tx' = <<[session |-> s, msg |-> <<"sendir", port, id, sendIr>>]>>
          /\ lastCall' = [lastCall EXCEPT ![s] =
                            IF SameCallAgain(s, port, pronto, repeat)
                            THEN "irAgain" ELSE "ir"]
          /\ lastIr' = [lastIr EXCEPT ![s] =
                          [sent |-> TRUE, port |-> port, pronto |-> pronto,
                           repeat |-> repeat, payload |-> sendIr, id |-> id]]

\* sendPronto(port, pronto, repeat) of session s.  An exception of the
\* translator leaves the method before any field is written.  The message is
\* the comma-joined list of the fields of msg.
sendPronto(s, port, pronto, repeat) ==
  LET conv    == Translated[pronto, IF repeat > 0 THEN repeat ELSE 1]
      sendIr  == conv.value
      changed == lastSendIrPort[s] # port \/ lastSendIr[s] # sendIr
      id      == IF changed THEN NextIrId(irId[s]) ELSE irId[s]
  IN IF conv.threw
     THEN /\ tx' = <<>>
          /\ lastCall' = [lastCall EXCEPT ![s] = "threw"]
          /\ UNCHANGED <<irId, lastSendIrPort, lastSendIr, lastIr>>
     ELSE /\ lastSendIrPort' = [lastSendIrPort EXCEPT ![s] = IF changed THEN port ELSE @]
          /\ lastSendIr' = [lastSendIr EXCEPT ![s] = IF changed THEN sendIr ELSE @]
          /\ irId' = [irId EXCEPT ![s] = id]
          /\ tx' = <<[session |-> s, msg |-> <<"sendir", port, id, sendIr>>]>>
          /\ lastCall' = [lastCall EXCEPT ![s] =
                            IF SameCallAgain(s, port, pronto, repeat)
                            THEN "irAgain" ELSE "ir"]
          /\ lastIr' = [lastIr EXCEPT ![s] =
                          [sent |-> TRUE, port |-> port, pronto |-> pronto,
                           repeat |-> repeat, payload |-> sendIr, id |-> id]]

(***************************************************************************)
(* JSON                                                                    *)
(***************************************************************************)

\* A JSON value is [t, v]: its type and its content.  The members of an
\* object are a list of <<key, value>> in the order they were written.
JString(s) == [t |-> "string", v |-> s]
JNumber(n) == [t |-> "number", v |-> n]
JArray(items) == [t |-> "array", v |-> items]
JObject(members) == [t |-> "object", v |-> members]
JUndefined == [t |-> "undefined", v |-> "undefined"]

\* obj.key: the value of the member, undefined when the object has none.
Member(obj, key) ==
  LET hits == {i \in 1..Len(obj.v) : obj.v[i][1] = key}
  IN IF hits = {} THEN JUndefined ELSE obj.v[CHOOSE i \in hits : TRUE][2]

\* The value counts as true in a condition.
Truthy(jv) ==
  CASE jv.t = "number" -> jv.v # 0
    [] jv.t = "string" -> jv.v # ""
    [] jv.t = "undefined" -> FALSE
    [] OTHER -> TRUE

\* JSON.stringify of a GcIrPort: its fields module, port, mode.
stringifyPort(port) ==
  JObject(<< <<"module", JNumber(port.module)>>,
             <<"port", JNumber(port.port)>>,
             <<"mode", JString(port.mode)>> >>)

\* JSON.stringify of a device record: its fields id, name, address, irPorts.
stringifyDevice(device) ==
  JObject(<< <<"id", JString(device.id)>>,
             <<"name", JString(device.name)>>,
             <<"address", JString(device.address)>>,
             <<"irPorts", JArray([i \in 1..Len(device.irPorts) |->
                                    stringifyPort(device.irPorts[i])])>> >>)

\* JSON.stringify(this.#config)
stringify(cfg) == JArray([i \in 1..Len(cfg) |-> stringifyDevice(cfg[i])])

(***************************************************************************)
(* Device configuration store                                              *)
(***************************************************************************)

\* new GcIrPort(module, port, mode) and new GcDevice(id, name, address, irPorts)
GcIrPort(module, port, mode) == [module |-> module, port |-> port, mode |-> mode]
GcDevice(id, name, address, irPorts) ==
  [id |-> id, name |-> name, address |-> address, irPorts |-> irPorts]

\* The configuration file: missing, unreadable as JSON, or a JSON text.
Absent == [exists |-> FALSE]
Garbage == [exists |-> TRUE, parses |-> FALSE]
Text(json) == [exists |-> TRUE, parses |-> TRUE, json |-> json]

\* The argument of the remove handler that stands for "all devices removed".
null == [isNull |-> TRUE]

\* What an operation does to its surroundings, in the order it does it.
WriteEv(content, ok) == [ev |-> "writeFileSync", content |-> content, ok |-> ok]
UnlinkEv == [ev |-> "unlink"]
AddedEv(device) == [ev |-> "addHandler", device |-> device]
RemovedEv(device) == [ev |-> "removeHandler", device |-> device]

VARIABLES
  config,         \* Devices.#config: the list of device records
  initialized,    \* init() has set the file path and the two handlers
  file,           \* the configuration file gc_config.json
  pendingUnlink,  \* fs.unlink calls of clear() that have not completed
  trace,          \* what the last operation did: file writes and handler calls
  ret,            \* what the last operation returned: "true", "false", "undefined"
  op              \* the last operation and its argument

storeVars == <<config, initialized, file, pendingUnlink, trace, ret, op>>

\* Number of fs.unlink calls that may be in flight at once.
MaxPendingUnlink == 2

\* cfg.findIndex((item) => item.id === gcId), counted from 1; 0 for "not found".
findIndex(cfg, gcId) ==
  LET hits == {i \in 1..Len(cfg) : cfg[i].id = gcId}
  IN IF hits = {} THEN 0 ELSE CHOOSE i \in hits : \A j \in hits : i <= j

\* contains(gcId)
contains(cfg, gcId) == \E i \in 1..Len(cfg) : cfg[i].id = gcId

\* { ...old, ...device }: the fields of both, those of device win.
Spread(old, device) ==
  [f \in DOMAIN old \cup DOMAIN device |->
     IF f \in DOMAIN device THEN device[f] ELSE old[f]]

\* The file after fs.writeFileSync(path, content) that succeeded or threw.
writeFileSync(content, ok) == IF ok THEN Text(content) ELSE file

\* Mutant of update: it never finds the id.
update_NeverFinds(cfg, device) == [found |-> FALSE, config |-> cfg]

\* Mutant of update: the merged entry moves to the end of the list.
update_MovesToEnd(cfg, device) ==
  LET index == findIndex(cfg, device.id)
  IN IF index # 0
     THEN [found |-> TRUE,
           config |-> Append(SubSeq(cfg, 1, index - 1) \o SubSeq(cfg, index + 1, Len(cfg)),
                             Spread(cfg[index], device))]
     ELSE [found |-> FALSE, config |-> cfg]

\* update(device) on the list cfg: whether the id was found, and the list
\* that the store() of update then writes.
update(cfg, device) ==
  LET index == findIndex(cfg, device.id)
  IN IF index # 0
     THEN [found |-> TRUE, config |-> [cfg EXCEPT ![index] = Spread(@, device)]]
     ELSE [found |-> FALSE, config |-> cfg]

\* Mutant of addOrUpdate: a new record is not announced to the add handler.
addOrUpdate_SkipsHandler(device, ok) ==
  LET index == findIndex(config, device.id)
      cfg == IF index # 0 THEN [config EXCEPT ![index] = Spread(@, device)]
             ELSE Append(config, device)
  IN /\ initialized
     /\ config' = cfg
     /\ file' = writeFileSync(stringify(cfg), ok)
     /\ trace' = <<WriteEv(stringify(cfg), ok)>>
     /\ ret' = "undefined"
     /\ op' = [name |-> "addOrUpdate", device |-> device]
     /\ UNCHANGED <<initialized, pendingUnlink>>

\* addOrUpdate(device); ok: the write of store() succeeded.
addOrUpdate(device, ok) ==
  LET upd == update(config, device)
      cfg == IF upd.found THEN upd.config ELSE Append(config, device)
  IN /\ initialized
     /\ config' = cfg
     /\ file' = writeFileSync(stringify(cfg), ok)
     /\ trace' = IF upd.found
                 THEN <<WriteEv(stringify(cfg), ok)>>
                 ELSE <<WriteEv(stringify(cfg), ok), AddedEv(device)>>
     /\ ret' = "undefined"
     /\ op' = [name |-> "addOrUpdate", device |-> device]
     /\ UNCHANGED <<initialized, pendingUnlink>>

\* Mutant of remove: the removed record is not announced to the remove handler.
remove_SkipsHandler(gcId) ==
  LET index == findIndex(config, gcId)
  IN /\ initialized
     /\ IF index # 0
        THEN /\ config' = SubSeq(config, 1, index - 1)
                            \o SubSeq(config, index + 1, Len(config))
             /\ ret' = "true"
        ELSE /\ config' = config
             /\ ret' = "false"
     /\ trace' = <<>>
     /\ op' = [name |-> "remove", gcId |-> gcId]
     /\ UNCHANGED <<initialized, file, pendingUnlink>>

\* Mutant of remove: it stores the list after taking the record out.
remove_Stores(gcId) ==
  LET index == findIndex(config, gcId)
      cfg == SubSeq(config, 1, index - 1) \o SubSeq(config, index + 1, Len(config))
  IN /\ initialized
     /\ IF index # 0
        THEN /\ config' = cfg
             /\ file' = Text(stringify(cfg))
             /\ trace' = <<RemovedEv(config[index]), WriteEv(stringify(cfg), TRUE)>>
             /\ ret' = "true"
        ELSE /\ config' = config
             /\ file' = file
             /\ trace' = <<>>
             /\ ret' = "false"
     /\ op' = [name |-> "remove", gcId |-> gcId]
     /\ UNCHANGED <<initialized, pendingUnlink>>

\* remove(gcId)
remove(gcId) ==
  LET index == findIndex(config, gcId)
  IN /\ initialized
     /\ IF index # 0
        THEN /\ config' = SubSeq(config, 1, index - 1)
                            \o SubSeq(config, index + 1, Len(config))
             /\ trace' = <<RemovedEv(config[index])>>
             /\ ret' = "true"
        ELSE /\ config' = config
             /\ trace' = <<>>
             /\ ret' = "false"
     /\ op' = [name |-> "remove", gcId |-> gcId]
     /\ UNCHANGED <<initialized, file, pendingUnlink>>

\* Mutant of clear: the remove handler is called only when records were held.
clear_QuietWhenEmpty ==
  /\ initialized
  /\ file.exists => pendingUnlink < MaxPendingUnlink
  /\ config' = <<>>
  /\ pendingUnlink' = IF file.exists THEN pendingUnlink + 1 ELSE pendingUnlink
  /\ trace' = (IF file.exists THEN <<UnlinkEv>> ELSE <<>>)
                \o (IF config # <<>> THEN <<RemovedEv(null)>> ELSE <<>>)
  /\ ret' = "undefined"
  /\ op' = [name |-> "clear", wasEmpty |-> config = <<>>]
  /\ UNCHANGED <<initialized, file>>

\* clear(): the file is deleted later, when the fs.unlink completes.
clear ==
  /\ initialized
  /\ file.exists => pendingUnlink < MaxPendingUnlink
  /\ config' = <<>>
  /\ pendingUnlink' = IF file.exists THEN pendingUnlink + 1 ELSE pendingUnlink
  /\ trace' = IF file.exists THEN <<UnlinkEv, RemovedEv(null)>> ELSE <<RemovedEv(null)>>
  /\ ret' = "undefined"
  /\ op' = [name |-> "clear", wasEmpty |-> config = <<>>]
  /\ UNCHANGED <<initialized, file>>

\* A fs.unlink of clear() completes: it deletes the file, or fails (no file
\* any more, or the file system refuses) and its callback logs the error.
unlinkDone(ok) ==
  /\ pendingUnlink > 0
  /\ pendingUnlink' = pendingUnlink - 1
  /\ file' = IF ok /\ file.exists THEN Absent ELSE file
  /\ trace' = <<>>
  /\ ret' = "undefined"
  /\ op' = [name |-> "unlinkDone", ok |-> ok]
  /\ UNCHANGED <<config, initialized>>

\* store(); ok: the write succeeded.
store(ok) ==
  /\ initialized
  /\ file' = writeFileSync(stringify(config), ok)
  /\ trace' = <<WriteEv(stringify(config), ok)>>
  /\ ret' = IF ok THEN "true" ELSE "false"
  /\ op' = [name |-> "store"]
  /\ UNCHANGED <<config, initialized, pendingUnlink>>

\* The port of the file is taken over by load().
KeepPort(port) ==
  Truthy(Member(port, "module")) /\ Truthy(Member(port, "port"))
    /\ Truthy(Member(port, "mode"))

\* The record load() makes of one item of the parsed array.
loadItem(item) ==
  LET listed == Member(item, "irPorts")
      kept   == IF listed.t = "array" THEN SelectSeq(listed.v, KeepPort) ELSE <<>>
      irPorts == [i \in 1..Len(kept) |->
                    GcIrPort(Member(kept[i], "module").v, Member(kept[i], "port").v,
                             Member(kept[i], "mode").v)]
  IN GcDevice(Member(item, "id").v, Member(item, "name").v,
              Member(item, "address").v, irPorts)

\* Mutant of load: a file that cannot be parsed counts as loaded.
load_MalformedIsLoaded(cfg) ==
  IF ~file.exists
  THEN [ret |-> "false", config |-> <<>>]
  ELSE IF ~file.parses \/ file.json.t # "array"
  THEN [ret |-> "true", config |-> cfg]
  ELSE [ret |-> "true",
        config |-> [i \in 1..Len(file.json.v) |-> loadItem(file.json.v[i])]]

\* load() on the list cfg: what it returns and the list it leaves.  A file
\* that cannot be parsed, or whose JSON value has no map(), ends in the
\* catch block, which leaves the list alone.
load(cfg) ==
  IF ~file.exists
  THEN [ret |-> "false", config |-> <<>>]
  ELSE IF ~file.parses \/ file.json.t # "array"
  THEN [ret |-> "false", config |-> cfg]
  ELSE [ret |-> "true",
        config |-> [i \in 1..Len(file.json.v) |-> loadItem(file.json.v[i])]]

\* The process starts: a new Devices with an empty list, then
\* init(dataPath, addHandler, removeHandler).  The process before it has
\* ended, with its file operations.
init ==
  LET loaded == load(<<>>)
  IN /\ pendingUnlink = 0
     /\ initialized' = TRUE
     /\ config' = loaded.config
     /\ ret' = loaded.ret
     /\ trace' = <<>>
     /\ op' = [name |-> "init"]
     /\ UNCHANGED <<file, pendingUnlink>>

(***************************************************************************)
(* Store inputs                                                            *)
(***************************************************************************)

\* What a device reports about itself: name, address, ports.  The last one
\* reports a port on module 0.
DeviceInfos ==
  { [name |-> "iTach", address |-> "192.168.1.10",
     irPorts |-> <<GcIrPort(1, 1, "IR"), GcIrPort(1, 2, "SENSOR")>>],
    [name |-> "GC-100", address |-> "192.168.1.20:4998", irPorts |-> <<>>],
    [name |-> "Flex", address |-> "192.168.1.30",
     irPorts |-> <<GcIrPort(0, 1, "IR_BLASTER"), GcIrPort(1, 1, "IR")>>] }

\* The records handed to addOrUpdate.
DeviceRecords ==
  {GcDevice(id, info.name, info.address, info.irPorts) :
     id \in Sessions, info \in DeviceInfos}

\* The lists of records with distinct ids.
StoreContents ==
  {<<>>} \cup {<<a>> : a \in DeviceRecords}
         \cup {<<a, b>> : <<a, b>> \in {p \in DeviceRecords \X DeviceRecords :
                                          p[1].id # p[2].id}}

\* The file a new process may find: none, one of an earlier run, one that is
\* no JSON (a write that was cut short), a JSON text that is no array, and a
\* hand-written one whose device has no irPorts.
InitialFiles ==
  {Absent, Garbage, Text(JObject(<<>>)),
   Text(JArray(<<JObject(<< <<"id", JString("gc1")>>, <<"name", JString("iTach")>>,
                            <<"address", JString("192.168.1.10")>> >>)>>))}
    \cup {Text(stringify(cfg)) : cfg \in StoreContents}

InitStore ==
  /\ config = <<>>
  /\ initialized = FALSE
  /\ file \in InitialFiles
  /\ pendingUnlink = 0
  /\ trace = <<>>
  /\ ret = "undefined"
  /\ op = [name |-> "new"]

(***************************************************************************)
(* Setup flow: values                                                      *)
(***************************************************************************)

SetupSteps == [INIT |-> 0, CONFIGURATION_MODE |-> 1, DISCOVER |-> 2, DEVICE_CHOICE |-> 3]

\* A Map, and the inputValues object of a response: its entries <<key, value>>
\* in insertion order, every key once.
has(map, key) == \E i \in 1..Len(map) : map[i][1] = key

\* map.get(key) of a key the map has.
get(map, key) == map[CHOOSE i \in 1..Len(map) : map[i][1] = key][2]

\* map.set(key, value)
set(map, key, value) ==
  IF has(map, key)
  THEN [i \in 1..Len(map) |-> IF map[i][1] = key THEN <<key, value>> ELSE map[i]]
  ELSE Append(map, <<key, value>>)

\* `${map.get(key)}`
getText(map, key) == IF has(map, key) THEN get(map, key) ELSE "undefined"

\* The characters of a list as one string.
RECURSIVE Chars2String(_)
Chars2String(chars) ==
  IF chars = <<>> THEN "" ELSE chars[1] \o Chars2String(Tail(chars))

\* host.replaceAll(".", ""), host as the list of its characters
replaceAll(chars, c) == SelectSeq(chars, LAMBDA x : x # c)

\* The setup actions a handler answers with.
RequestUserInput(title, settings) ==
  [action |-> "RequestUserInput", title |-> title, settings |-> settings]
RequestUserConfirmation(title) ==
  [action |-> "RequestUserConfirmation", title |-> title, settings |-> <<>>]
SetupComplete == [action |-> "SetupComplete", title |-> "", settings |-> <<>>]

\* new uc.setup.SetupError(errorType); errorType is <<holder, member>> as the
\* code names it (uc.setup.<holder>.<member>), <<>> when none is passed.
SetupError(errorType) ==
  [action |-> "SetupError", title |-> "", settings |-> <<>>, errorType |-> errorType]

\* The messages of the remote.
DriverSetupRequest(reconfigure) == [type |-> "DriverSetupRequest", reconfigure |-> reconfigure]
UserDataResponse(inputValues) == [type |-> "UserDataResponse", inputValues |-> inputValues]
UserConfirmationResponse == [type |-> "UserConfirmationResponse"]
AbortDriverSetup == [type |-> "AbortDriverSetup"]

\* What a handler has done with the network: the scan it ran (with the store
\* and the step it ran against) and the addresses it asked for device
\* information, each with whether the device answered.
Probed(address, ok) == [address |-> address, ok |-> ok]
NoIo == [scanned |-> FALSE, probed |-> <<>>]
ScanIo(cfg, step) == [scanned |-> TRUE, probed |-> <<>>, config |-> cfg, setupStep |-> step]

VARIABLES
  setupStep,          \* the step of the setup flow
  cfgAddDevice,       \* the user chose to add a device in configuration mode
  manualAddress,      \* the last discovery probed an address the user typed
  discoveredDevices,  \* Map of the last discovery: id -> Map of its properties
  msg,                \* the last message handled by driverSetupHandler
  response,           \* the setup action it answered with
  io,                 \* the scan and the probes it made
  suspended           \* the call of handleDiscovery that waits at its await

wizardVars == <<setupStep, cfgAddDevice, manualAddress, discoveredDevices,
                msg, response, io, suspended>>

\* No call of handleDiscovery is waiting.
NotSuspended == [awaits |-> "nothing"]

InitWizard ==
  /\ setupStep = SetupSteps.INIT
  /\ cfgAddDevice = FALSE
  /\ manualAddress = FALSE
  /\ discoveredDevices = <<>>
  /\ msg = [type |-> "none"]
  /\ response = [action |-> "none"]
  /\ io = NoIo
  /\ suspended = NotSuspended

(***************************************************************************)
(* Setup flow: the calls on config.devices                                 *)
(***************************************************************************)

\* The store as a handler sees it between its calls: st.config, st.file,
\* st.pendingUnlink and st.trace, the events of the handler so far.

\* config.devices.clear()
devices_clear(st) ==
  [st EXCEPT !.config = <<>>,
             !.pendingUnlink = IF st.file.exists THEN @ + 1 ELSE @,
             !.trace = @ \o (IF st.file.exists THEN <<UnlinkEv>> ELSE <<>>)
                         \o <<RemovedEv(null)>>]

\* config.devices.remove(gcId): st.ret tells whether a record was removed.
devices_remove(st, gcId) ==
  LET index == findIndex(st.config, gcId)
  IN IF index # 0
     THEN [ret |-> TRUE,
           st |-> [st EXCEPT !.config = SubSeq(@, 1, index - 1)
                                          \o SubSeq(@, index + 1, Len(@)),
                             !.trace = Append(@, RemovedEv(st.config[index]))]]
     ELSE [ret |-> FALSE, st |-> st]

\* config.devices.store(); ok: the write succeeds.
devices_store(st, ok) ==
  [st EXCEPT !.file = IF ok THEN Text(stringify(st.config)) ELSE @,
             !.trace = Append(@, WriteEv(stringify(st.config), ok))]

\* config.devices.addOrUpdate(device); ok: the write of its store() succeeds.
devices_addOrUpdate(st, device, ok) ==
  LET upd == update(st.config, device)
  IN IF upd.found
     THEN devices_store([st EXCEPT !.config = upd.config], ok)
     ELSE LET stored == devices_store([st EXCEPT !.config = Append(@, device)], ok)
          IN [stored EXCEPT !.trace = Append(@, AddedEv(device))]

(***************************************************************************)
(* Setup flow: handlers                                                    *)
(***************************************************************************)

\* A handler works on w, the variables of the setup flow (w.setupStep,
\* w.cfgAddDevice, w.manualAddress, w.discoveredDevices), and on st, the
\* store.  env is what the network and the disk do while it runs: env.scan,
\* the Map that discover() resolves to; env.devices, the device information
\* behind each address that answers; env.ok, whether file writes succeed.
\* It gives [w, st, response, io].

\* retrieveDeviceInfo(address): resolves to the device information, or rejects.
retrieveDeviceInfo(address, env) ==
  IF has(env.devices, address)
  THEN [ok |-> TRUE, deviceInfo |-> get(env.devices, address)]
  ELSE [ok |-> FALSE]


\* Mutant of scanCheckBoxes: configured devices are offered when adding.
RECURSIVE scanCheckBoxes_OffersConfigured(_, _, _)
scanCheckBoxes_OffersConfigured(entries, w, st) ==
  IF entries = <<>> THEN <<>>
  ELSE LET item == entries[1][2]
           rest == scanCheckBoxes_OffersConfigured(Tail(entries), w, st)
       IN IF ~has(item, "UUID") THEN rest
          ELSE IF has(item, "Make") /\ get(item, "Make") = "Unfolded Circle" THEN rest
          ELSE <<[id |-> get(item, "UUID"), value |-> FALSE,
                  label |-> getText(item, "Model") \o " " \o getText(item, "Revision")
                              \o " (" \o getText(item, "address") \o ")"]>> \o rest

\* The check boxes of the scanned items, in the order of the Map.
RECURSIVE scanCheckBoxes(_, _, _)
scanCheckBoxes(entries, w, st) ==
  IF entries = <<>> THEN <<>>
  ELSE LET item == entries[1][2]
           rest == scanCheckBoxes(Tail(entries), w, st)
       IN IF ~has(item, "UUID") THEN rest
          ELSE IF w.cfgAddDevice /\ contains(st.config, get(item, "UUID")) THEN rest
          ELSE IF has(item, "Make") /\ get(item, "Make") = "Unfolded Circle" THEN rest
          ELSE <<[id |-> get(item, "UUID"), value |-> FALSE,
                  label |-> getText(item, "Model") \o " " \o getText(item, "Revision")
                              \o " (" \o getText(item, "address") \o ")"]>> \o rest


\* Mutant of handleDiscovery: a scan without candidates goes on to the choice.
handleDiscovery_EmptyMovesOn(w, st, m, env) ==
  LET boxes == scanCheckBoxes(env.scan, w, st)
  IN IF m.type = "UserDataResponse" /\ has(m.inputValues, "address")
          /\ get(m.inputValues, "address") # ""
     THEN [w |-> [w EXCEPT !.manualAddress = TRUE], st |-> st,
           response |-> SetupError(<<"SetupError", "CONNECTION_REFUSED">>),
           io |-> [NoIo EXCEPT !.probed = <<Probed(get(m.inputValues, "address"), FALSE)>>]]
     ELSE [w |-> [w EXCEPT !.manualAddress = FALSE, !.discoveredDevices = env.scan,
                           !.setupStep = SetupSteps.DEVICE_CHOICE],
           st |-> st,
           response |-> IF boxes = <<>>
                        THEN RequestUserConfirmation("setup.discovery_failed.title")
                        ELSE RequestUserInput("Select your Global Caché products", boxes),
           io |-> ScanIo(st.config, w.setupStep)]

\* Mutant of handleDiscovery: the scan runs although an address was typed.
handleDiscovery_ScansAnyway(w, st, m, env) ==
  LET boxes == scanCheckBoxes(env.scan, w, st)
  IN [w |-> [w EXCEPT !.manualAddress = FALSE, !.discoveredDevices = env.scan,
                      !.setupStep = IF boxes = <<>> THEN @ ELSE SetupSteps.DEVICE_CHOICE],
      st |-> st,
      response |-> IF boxes = <<>> THEN RequestUserConfirmation("setup.discovery_failed.title")
                   ELSE RequestUserInput("Select your Global Caché products", boxes),
      io |-> ScanIo(st.config, w.setupStep)]

\* handleDiscovery(msg)
handleDiscovery(w, st, m, env) ==
  LET typed == m.type = "UserDataResponse" /\ has(m.inputValues, "address")
                 /\ get(m.inputValues, "address") # ""
  IN IF typed
     THEN LET address == get(m.inputValues, "address")
              probe == retrieveDeviceInfo(address, env)
          IN IF probe.ok
             THEN LET deviceInfo == probe.deviceInfo
                      host == Chars2String(deviceInfo.host)
                      id == deviceInfo.productFamily \o "_"
                              \o Chars2String(replaceAll(deviceInfo.host, "."))
                      boxes == <<[id |-> id, value |-> TRUE,
                                  label |-> deviceInfo.productFamily \o " " \o deviceInfo.version
                                              \o " (" \o host \o ")"]>>
                  IN [w |-> [w EXCEPT !.manualAddress = TRUE,
                                      !.discoveredDevices =
                                         set(<<>>, id, << <<"UUID", id>>, <<"address", host>> >>),
                                      !.setupStep = SetupSteps.DEVICE_CHOICE],
                      st |-> st,
                      response |-> RequestUserInput("Select your Global Caché products", boxes),
                      io |-> [NoIo EXCEPT !.probed = <<Probed(address, TRUE)>>]]
             ELSE [w |-> [w EXCEPT !.manualAddress = TRUE],
                   st |-> st,
                   response |-> SetupError(<<"SetupError", "CONNECTION_REFUSED">>),
                   io |-> [NoIo EXCEPT !.probed = <<Probed(address, FALSE)>>]]
     ELSE LET boxes == scanCheckBoxes(env.scan, w, st)
          IN [w |-> [w EXCEPT !.manualAddress = FALSE, !.discoveredDevices = env.scan,
                              !.setupStep = IF boxes = <<>> THEN @
                                            ELSE SetupSteps.DEVICE_CHOICE],
              st |-> st,
              response |-> IF boxes = <<>>
                           THEN RequestUserConfirmation("setup.discovery_failed.title")
                           ELSE RequestUserInput("Select your Global Caché products", boxes),
              io |-> ScanIo(st.config, w.setupStep)]


\* Mutant of confirmDevices: a device that does not answer is skipped and
\* the loop goes on.
RECURSIVE confirmDevices_SkipsFailed(_, _, _, _, _)
confirmDevices_SkipsFailed(entries, w, st, probed, env) ==
  IF entries = <<>> THEN [failed |-> FALSE, st |-> st, probed |-> probed]
  ELSE LET uuid == entries[1][1]
       IN IF entries[1][2] # "true" \/ ~has(w.discoveredDevices, uuid)
          THEN confirmDevices_SkipsFailed(Tail(entries), w, st, probed, env)
          ELSE LET device == get(w.discoveredDevices, uuid)
                   address == get(device, "address")
                   probe == retrieveDeviceInfo(address, env)
               IN IF ~probe.ok
                  THEN confirmDevices_SkipsFailed(Tail(entries), w, st,
                                                  Append(probed, Probed(address, FALSE)), env)
                  ELSE LET deviceInfo == probe.deviceInfo
                           gcDevice == GcDevice(uuid, deviceInfo.name, deviceInfo.address,
                                                deviceInfo.irPorts)
                       IN confirmDevices_SkipsFailed(Tail(entries), w,
                                                     devices_addOrUpdate(st, gcDevice, env.ok),
                                                     Append(probed, Probed(address, TRUE)), env)

\* The loop of handleUserDataResponse over the entries of msg.inputValues
\* that are left: the store and the probes when it ends, and whether it
\* ended in the catch block.
RECURSIVE confirmDevices(_, _, _, _, _)
confirmDevices(entries, w, st, probed, env) ==
  IF entries = <<>> THEN [failed |-> FALSE, st |-> st, probed |-> probed]
  ELSE LET uuid == entries[1][1]
       IN IF entries[1][2] # "true" \/ ~has(w.discoveredDevices, uuid)
          THEN confirmDevices(Tail(entries), w, st, probed, env)
          ELSE LET device == get(w.discoveredDevices, uuid)
                   address == get(device, "address")
                   probe == retrieveDeviceInfo(address, env)
               IN IF ~probe.ok
                  THEN [failed |-> TRUE, st |-> st,
                        probed |-> Append(probed, Probed(address, FALSE))]
                  ELSE LET deviceInfo == probe.deviceInfo
                           irPorts == [i \in 1..Len(deviceInfo.irPorts) |->
                                         GcIrPort(deviceInfo.irPorts[i].module,
                                                  deviceInfo.irPorts[i].port,
                                                  deviceInfo.irPorts[i].mode)]
                           gcDevice == GcDevice(uuid, deviceInfo.name, deviceInfo.address,
                                                irPorts)
                       IN confirmDevices(Tail(entries), w,
                                         devices_addOrUpdate(st, gcDevice, env.ok),
                                         Append(probed, Probed(address, TRUE)), env)


\* Mutant of handleUserDataResponse: the record gets the address of the
\* device as its id.
handleUserDataResponse_IdFromAddress(w, st, m, env) ==
  LET done == confirmDevices(m.inputValues, w, st, <<>>, env)
      renamed == [i \in 1..Len(done.st.config) |->
                    [done.st.config[i] EXCEPT !.id = done.st.config[i].address]]
  IN [w |-> w,
      st |-> [done.st EXCEPT !.config = renamed],
      response |-> IF done.failed THEN SetupError(<<"SetupError", "OTHER">>)
                   ELSE SetupComplete,
      io |-> [NoIo EXCEPT !.probed = done.probed]]

\* handleUserDataResponse(msg)
handleUserDataResponse(w, st, m, env) ==
  LET done == confirmDevices(m.inputValues, w, st, <<>>, env)
  IN [w |-> w,
      st |-> done.st,
      response |-> IF done.failed THEN SetupError(<<"SetupError", "OTHER">>)
                   ELSE SetupComplete,
      io |-> [NoIo EXCEPT !.probed = done.probed]]

\* The input screen of the discovery step: an information text and an
\* empty address field.
DiscoveryInput ==
  RequestUserInput("setup.discovery.title",
                   <<[id |-> "info", value |-> "setup.discovery.description"],
                     [id |-> "address", value |-> ""]>>)


\* Mutant of handleConfigurationMode: the removal is not stored.
handleConfigurationMode_RemoveUnsaved(w, st, m, env) ==
  LET action == get(m.inputValues, "action")
      toDiscover(flag, after) ==
        [w |-> [w EXCEPT !.cfgAddDevice = flag, !.setupStep = SetupSteps.DISCOVER],
         st |-> after, response |-> DiscoveryInput, io |-> NoIo]
      failed == [w |-> w, st |-> st,
                 response |-> SetupError(<<"IntegrationSetupError", "OTHER">>),
                 io |-> NoIo]
  IN CASE action = "add" -> toDiscover(TRUE, st)
       [] action = "remove" ->
            IF ~has(m.inputValues, "choice") THEN failed
            ELSE LET removed == devices_remove(st, get(m.inputValues, "choice"))
                 IN IF ~removed.ret THEN failed
                    ELSE [w |-> w, st |-> removed.st,
                          response |-> SetupComplete, io |-> NoIo]
       [] action = "reset" -> toDiscover(w.cfgAddDevice, devices_clear(st))
       [] OTHER -> failed

\* Mutant of handleConfigurationMode: a reset goes on as an addition.
handleConfigurationMode_ResetAdds(w, st, m, env) ==
  LET action == get(m.inputValues, "action")
      toDiscover(flag, after) ==
        [w |-> [w EXCEPT !.cfgAddDevice = flag, !.setupStep = SetupSteps.DISCOVER],
         st |-> after, response |-> DiscoveryInput, io |-> NoIo]
      failed == [w |-> w, st |-> st,
                 response |-> SetupError(<<"IntegrationSetupError", "OTHER">>),
                 io |-> NoIo]
  IN CASE action = "add" -> toDiscover(TRUE, st)
       [] action = "remove" ->
            IF ~has(m.inputValues, "choice") THEN failed
            ELSE LET removed == devices_remove(st, get(m.inputValues, "choice"))
                 IN IF ~removed.ret THEN failed
                    ELSE [w |-> w, st |-> devices_store(removed.st, env.ok),
                          response |-> SetupComplete, io |-> NoIo]
       [] action = "reset" -> toDiscover(TRUE, devices_clear(st))
       [] OTHER -> failed

\* handleConfigurationMode(msg); the dispatcher has found msg.inputValues
\* to hold an action.
handleConfigurationMode(w, st, m, env) ==
  LET action == get(m.inputValues, "action")
      toDiscover(flag, after) ==
        [w |-> [w EXCEPT !.cfgAddDevice = flag, !.setupStep = SetupSteps.DISCOVER],
         st |-> after, response |-> DiscoveryInput, io |-> NoIo]
      failed == [w |-> w, st |-> st,
                 response |-> SetupError(<<"IntegrationSetupError", "OTHER">>),
                 io |-> NoIo]
  IN CASE action = "add" -> toDiscover(TRUE, st)
       [] action = "remove" ->
            IF ~has(m.inputValues, "choice") THEN failed
            ELSE LET removed == devices_remove(st, get(m.inputValues, "choice"))
                 IN IF ~removed.ret THEN failed
                    ELSE [w |-> w, st |-> devices_store(removed.st, env.ok),
                          response |-> SetupComplete, io |-> NoIo]
       [] action = "reset" -> toDiscover(w.cfgAddDevice, devices_clear(st))
       [] OTHER -> failed


\* Mutant of ConfigurationInput: remove and reset are offered without devices.
ConfigurationInput_AlwaysAll(cfg) ==
  LET dropdownDevices ==
        IF cfg = <<>> THEN <<[id |-> "", label |-> "---"]>>
        ELSE [i \in 1..Len(cfg) |->
                [id |-> cfg[i].id, label |-> cfg[i].name \o " (" \o cfg[i].id \o ")"]]
      dropdownActions == <<"add", "remove", "reset">>
  IN RequestUserInput("setup.configuration.title",
       <<[id |-> "choice", value |-> dropdownDevices[1].id, items |-> dropdownDevices],
         [id |-> "action", value |-> dropdownActions[1], items |-> dropdownActions]>>)

\* The two drop-downs of the configuration screen.
ConfigurationInput(cfg) ==
  LET dropdownDevices ==
        IF cfg = <<>> THEN <<[id |-> "", label |-> "---"]>>
        ELSE [i \in 1..Len(cfg) |->
                [id |-> cfg[i].id, label |-> cfg[i].name \o " (" \o cfg[i].id \o ")"]]
      dropdownActions ==
        IF cfg = <<>> THEN <<"add">> ELSE <<"add", "remove", "reset">>
  IN RequestUserInput("setup.configuration.title",
       <<[id |-> "choice", value |-> dropdownDevices[1].id, items |-> dropdownDevices],
         [id |-> "action", value |-> dropdownActions[1], items |-> dropdownActions]>>)


\* Mutant of handleDriverSetup: a first setup keeps the configured devices.
handleDriverSetup_KeepsStore(w, st, m, env) ==
  IF m.reconfigure
  THEN [w |-> [w EXCEPT !.setupStep = SetupSteps.CONFIGURATION_MODE],
        st |-> st, response |-> ConfigurationInput(st.config), io |-> NoIo]
  ELSE handleDiscovery([w EXCEPT !.setupStep = SetupSteps.DISCOVER], st, m, env)

\* handleDriverSetup(msg)
handleDriverSetup(w, st, m, env) ==
  IF m.reconfigure
  THEN [w |-> [w EXCEPT !.setupStep = SetupSteps.CONFIGURATION_MODE],
        st |-> st, response |-> ConfigurationInput(st.config), io |-> NoIo]
  ELSE handleDiscovery([w EXCEPT !.setupStep = SetupSteps.DISCOVER],
                       devices_clear(st), m, env)


\* Mutant of driverSetupHandler: an abort clears the configuration too.
driverSetupHandler_AbortClearsStore(w, st, m, env) ==
  LET failed == [w |-> w, st |-> st, response |-> SetupError(<<>>), io |-> NoIo]
  IN CASE m.type = "DriverSetupRequest" ->
            handleDriverSetup([w EXCEPT !.setupStep = SetupSteps.INIT,
                                        !.cfgAddDevice = FALSE], st, m, env)
       [] m.type = "UserConfirmationResponse" ->
            IF w.setupStep = SetupSteps.DISCOVER THEN handleDiscovery(w, st, m, env)
            ELSE failed
       [] m.type = "UserDataResponse" ->
            IF w.setupStep = SetupSteps.CONFIGURATION_MODE /\ has(m.inputValues, "action")
            THEN handleConfigurationMode(w, st, m, env)
            ELSE IF w.setupStep = SetupSteps.DISCOVER THEN handleDiscovery(w, st, m, env)
            ELSE IF w.setupStep = SetupSteps.DEVICE_CHOICE
            THEN handleUserDataResponse(w, st, m, env)
            ELSE failed
       [] m.type = "AbortDriverSetup" ->
            [failed EXCEPT !.w.discoveredDevices = <<>>, !.w.setupStep = SetupSteps.INIT,
                           !.st = devices_clear(st)]
       [] OTHER -> failed


\* Mutant of driverSetupHandler: input that fits no step ends the flow.
driverSetupHandler_UnknownResets(w, st, m, env) ==
  LET failed == [w |-> [w EXCEPT !.setupStep = SetupSteps.INIT], st |-> st, response |-> SetupError(<<>>), io |-> NoIo]
  IN CASE m.type = "DriverSetupRequest" ->
            handleDriverSetup([w EXCEPT !.setupStep = SetupSteps.INIT,
                                        !.cfgAddDevice = FALSE], st, m, env)
       [] m.type = "UserConfirmationResponse" ->
            IF w.setupStep = SetupSteps.DISCOVER THEN handleDiscovery(w, st, m, env)
            ELSE failed
       [] m.type = "UserDataResponse" ->
            IF w.setupStep = SetupSteps.CONFIGURATION_MODE /\ has(m.inputValues, "action")
            THEN handleConfigurationMode(w, st, m, env)
            ELSE IF w.setupStep = SetupSteps.DISCOVER THEN handleDiscovery(w, st, m, env)
            ELSE IF w.setupStep = SetupSteps.DEVICE_CHOICE
            THEN handleUserDataResponse(w, st, m, env)
            ELSE failed
       [] m.type = "AbortDriverSetup" ->
            [failed EXCEPT !.w.discoveredDevices = <<>>]
       [] OTHER -> failed

\* Mutant of driverSetupHandler: a start keeps the add-device flag.
driverSetupHandler_StartKeepsFlag(w, st, m, env) ==
  LET failed == [w |-> w, st |-> st, response |-> SetupError(<<>>), io |-> NoIo]
  IN CASE m.type = "DriverSetupRequest" ->
            handleDriverSetup([w EXCEPT !.setupStep = SetupSteps.INIT], st, m, env)
       [] m.type = "UserConfirmationResponse" ->
            IF w.setupStep = SetupSteps.DISCOVER THEN handleDiscovery(w, st, m, env)
            ELSE failed
       [] m.type = "UserDataResponse" ->
            IF w.setupStep = SetupSteps.CONFIGURATION_MODE /\ has(m.inputValues, "action")
            THEN handleConfigurationMode(w, st, m, env)
            ELSE IF w.setupStep = SetupSteps.DISCOVER THEN handleDiscovery(w, st, m, env)
            ELSE IF w.setupStep = SetupSteps.DEVICE_CHOICE
            THEN handleUserDataResponse(w, st, m, env)
            ELSE failed
       [] m.type = "AbortDriverSetup" ->
            [failed EXCEPT !.w.discoveredDevices = <<>>, !.w.setupStep = SetupSteps.INIT]
       [] OTHER -> failed

\* driverSetupHandler(msg)
driverSetupHandler(w, st, m, env) ==
  LET failed == [w |-> w, st |-> st, response |-> SetupError(<<>>), io |-> NoIo]
  IN CASE m.type = "DriverSetupRequest" ->
            handleDriverSetup([w EXCEPT !.setupStep = SetupSteps.INIT,
                                        !.cfgAddDevice = FALSE], st, m, env)
       [] m.type = "UserConfirmationResponse" ->
            IF w.setupStep = SetupSteps.DISCOVER THEN handleDiscovery(w, st, m, env)
            ELSE failed
       [] m.type = "UserDataResponse" ->
            IF w.setupStep = SetupSteps.CONFIGURATION_MODE /\ has(m.inputValues, "action")
            THEN handleConfigurationMode(w, st, m, env)
            ELSE IF w.setupStep = SetupSteps.DISCOVER THEN handleDiscovery(w, st, m, env)
            ELSE IF w.setupStep = SetupSteps.DEVICE_CHOICE
            THEN handleUserDataResponse(w, st, m, env)
            ELSE failed
       [] m.type = "AbortDriverSetup" ->
            [failed EXCEPT !.w.discoveredDevices = <<>>, !.w.setupStep = SetupSteps.INIT]
       [] OTHER -> failed

\* The remote sends m and the handler runs to its answer.  The store has
\* been set up by init() before the remote is served.
DriverSetup(m, env) ==
  LET w == [setupStep |-> setupStep, cfgAddDevice |-> cfgAddDevice,
            manualAddress |-> manualAddress, discoveredDevices |-> discoveredDevices]
      st == [config |-> config, file |-> file, pendingUnlink |-> pendingUnlink,
             trace |-> <<>>]
  IN \E out \in {driverSetupHandler(w, st, m, env)} :
     /\ initialized
     /\ out.st.pendingUnlink <= MaxPendingUnlink
     /\ setupStep' = out.w.setupStep
     /\ cfgAddDevice' = out.w.cfgAddDevice
     /\ manualAddress' = out.w.manualAddress
     /\ discoveredDevices' = out.w.discoveredDevices
     /\ msg' = m
     /\ response' = out.response
     /\ io' = out.io
     /\ config' = out.st.config
     /\ file' = out.st.file
     /\ pendingUnlink' = out.st.pendingUnlink
     /\ trace' = out.st.trace
     /\ ret' = "undefined"
     /\ op' = [name |-> "driverSetupHandler"]
     /\ UNCHANGED <<initialized, suspended>>

\* msg.inputValues.address of a user data response is a string that is not
\* empty: handleDiscovery asks that address instead of scanning.
typedAddress(m) ==
  /\ m.type = "UserDataResponse"
  /\ has(m.inputValues, "address")
  /\ get(m.inputValues, "address") # ""

\* driverSetupHandler passes m on to handleDiscovery: a start that is no
\* reconfiguration, through handleDriverSetup, and a response in step DISCOVER.
reachesDiscovery(w, m) ==
  \/ m.type = "DriverSetupRequest" /\ ~m.reconfigure
  \/ /\ m.type \in {"UserConfirmationResponse", "UserDataResponse"}
     /\ w.setupStep = SetupSteps.DISCOVER

\* The remote sends m, and the handler runs until handleDiscovery waits for
\* retrieveDeviceInfo or for discover: what precedes the await has been done
\* (the start has reset the flag of the add mode, cleared the store and set
\* the step; handleDiscovery has set manualAddress), no answer has been given.
DriverSetupAwaits(m) ==
  LET w == [setupStep |-> setupStep, cfgAddDevice |-> cfgAddDevice,
            manualAddress |-> manualAddress, discoveredDevices |-> discoveredDevices]
      st == [config |-> config, file |-> file, pendingUnlink |-> pendingUnlink,
             trace |-> <<>>]
      start == m.type = "DriverSetupRequest"
  IN \E st1 \in {IF start THEN devices_clear(st) ELSE st} :
     /\ initialized
     /\ suspended = NotSuspended
     /\ reachesDiscovery(w, m)
     /\ st1.pendingUnlink <= MaxPendingUnlink
     /\ setupStep' = SetupSteps.DISCOVER
     /\ cfgAddDevice' = (IF start THEN FALSE ELSE cfgAddDevice)
     /\ manualAddress' = typedAddress(m)
     /\ suspended' = [awaits |-> IF typedAddress(m) THEN "retrieveDeviceInfo" ELSE "discover",
                      msg |-> m]
     /\ msg' = m
     /\ response' = [action |-> "none"]
     /\ io' = NoIo
     /\ config' = st1.config
     /\ file' = st1.file
     /\ pendingUnlink' = st1.pendingUnlink
     /\ trace' = st1.trace
     /\ ret' = "undefined"
     /\ op' = [name |-> "driverSetupHandler"]
     /\ UNCHANGED <<initialized, discoveredDevices>>

\* The awaited promise settles as env has it and handleDiscovery runs on to
\* its answer, on the variables as they are by now.  Nothing but
\* handleDiscovery assigns manualAddress, so the rest of the call does on the
\* present state what the whole call does on it.
DriverSetupResumes(env) ==
  LET w == [setupStep |-> setupStep, cfgAddDevice |-> cfgAddDevice,
            manualAddress |-> manualAddress, discoveredDevices |-> discoveredDevices]
      st == [config |-> config, file |-> file, pendingUnlink |-> pendingUnlink,
             trace |-> <<>>]
  IN /\ suspended # NotSuspended
     /\ \E out \in {handleDiscovery(w, st, suspended.msg, env)} :
          /\ setupStep' = out.w.setupStep
          /\ cfgAddDevice' = out.w.cfgAddDevice
          /\ manualAddress' = out.w.manualAddress
          /\ discoveredDevices' = out.w.discoveredDevices
          /\ response' = out.response
          /\ io' = out.io
     /\ suspended' = NotSuspended
     /\ op' = [name |-> "handleDiscovery"]
     /\ UNCHANGED <<msg, config, initialized, file, pendingUnlink, trace, ret>>

(***************************************************************************)
(* Setup flow: inputs                                                      *)
(***************************************************************************)

\* Two Global Caché devices on the network, as retrieveDeviceInfo reports
\* them, by the address they answer at.
HostA == <<"1", "0", ".", "0", ".", "0", ".", "7">>
HostB == <<"1", "0", ".", "0", ".", "0", ".", "8">>

InfoA ==
  [host |-> HostA, productFamily |-> "GC-100", version |-> "3.0-12",
   name |-> "GC-100-12", address |-> "10.0.0.7:4998",
   irPorts |-> <<[module |-> 4, port |-> 1, mode |-> "IR"]>>]
InfoB ==
  [host |-> HostB, productFamily |-> "iTach", version |-> "710-1005-05",
   name |-> "iTachIP2IR", address |-> "10.0.0.8:4998",
   irPorts |-> <<[module |-> 1, port |-> 1, mode |-> "IR"],
                 [module |-> 1, port |-> 2, mode |-> "SENSOR"]>>]

\* The devices that answer: both, or one of them only.
Networks ==
  { << <<"10.0.0.7", InfoA>>, <<"10.0.0.8", InfoB>> >>,
    << <<"10.0.0.7", InfoA>> >>,
    << <<"10.0.0.8", InfoB>> >> }

\* The beacons of a scan: the two devices, a dock of the remote's maker and
\* a beacon without UUID.
UuidA == "GlobalCache_000C1E01A875"
UuidB == "GlobalCache_000C1E02B2C3"
UuidDock == "UCD2_28372F00A1B2"

ItemA ==
  << <<"UUID", UuidA>>, <<"Make", "GlobalCache">>, <<"Model", "GC-100-12">>,
     <<"Revision", "3.0-12">>, <<"address", "10.0.0.7">> >>
ItemB ==
  << <<"UUID", UuidB>>, <<"Make", "GlobalCache">>, <<"Model", "iTachIP2IR">>,
     <<"Revision", "710-1005-05">>, <<"address", "10.0.0.8">> >>
ItemDock ==
  << <<"UUID", UuidDock>>, <<"Make", "Unfolded Circle">>, <<"Model", "UCD2">>,
     <<"address", "10.0.0.2">> >>
ItemNoUuid == << <<"Make", "GlobalCache">>, <<"address", "10.0.0.9">> >>

\* The Maps discover() resolves to.
Scans ==
  { <<>>,
    << <<UuidDock, ItemDock>>, <<"10.0.0.9", ItemNoUuid>> >>,
    << <<UuidA, ItemA>>, <<UuidDock, ItemDock>>, <<UuidB, ItemB>> >> }

\* Nothing answers and no scan finds anything.
Quiet == [scan |-> <<>>, devices |-> <<>>, ok |-> TRUE]

\* What happens around one handler.  A handler that scans neither asks a
\* device nor writes, so the scans are combined with one network only; a
\* write fails with both devices answering.
Both == << <<"10.0.0.7", InfoA>>, <<"10.0.0.8", InfoB>> >>

Envs ==
  {[scan |-> scan, devices |-> Both, ok |-> TRUE] : scan \in Scans}
    \cup {[scan |-> <<>>, devices |-> devices, ok |-> TRUE] : devices \in Networks}
    \cup {[scan |-> <<>>, devices |-> Both, ok |-> FALSE]}

\* The inputValues of the user data responses: the configuration screen,
\* the discovery screen and the device choice.
UserInputs ==
  { << <<"choice", UuidA>>, <<"action", "add">> >>,
    << <<"choice", UuidA>>, <<"action", "remove">> >>,
    << <<"choice", "">>, <<"action", "remove">> >>,
    << <<"choice", UuidA>>, <<"action", "reset">> >>,
    << <<"choice", UuidA>>, <<"action", "update">> >>,
    << <<"info", "">>, <<"address", "">> >>,
    << <<"info", "">>, <<"address", "10.0.0.7">> >>,
    << <<UuidA, "true">>, <<UuidB, "true">> >>,
    << <<UuidA, "false">>, <<UuidB, "true">> >> }

\* The records the flow makes of the two devices.
RecordA == GcDevice(UuidA, InfoA.name, InfoA.address, InfoA.irPorts)
RecordB == GcDevice(UuidB, InfoB.name, InfoB.address, InfoB.irPorts)

\* The store when the remote opens the setup: as init() loaded it.
ConfiguredAtStart == {<<>>, <<RecordA>>, <<RecordB, RecordA>>}

InitConfigured ==
  /\ config \in ConfiguredAtStart
  /\ initialized = TRUE
  /\ file = (IF config = <<>> THEN Absent ELSE Text(stringify(config)))
  /\ pendingUnlink = 0
  /\ trace = <<>>
  /\ ret = IF config = <<>> THEN "false" ELSE "true"
  /\ op = [name |-> "init"]

(***************************************************************************)
(* Translator inputs                                                       *)
(***************************************************************************)

\* A token of a PRONTO code: its four characters.
Token(a, b, c, d) == <<a, b, c, d>>

\* The first tokens: the marker of a raw code, the marker of a learned
\* code, and tokens that are no marker at all.
Markers ==
  {Token("0", "0", "0", "0"), Token("0", "1", "0", "0"), Token("0", "0", "0", "A"),
   Token("5", "0", "0", "0")}

\* The second tokens: carrier periods.
Periods == {Token("0", "0", "6", "D"), Token("0", "0", "7", "0")}

\* The third and fourth tokens: the lengths of the two burst sequences.
OnceLengths == {Token("0", "0", "0", "0"), Token("0", "0", "0", "1"), Token("0", "0", "2", "2")}
RepeatLengths == {Token("0", "0", "0", "0"), Token("0", "0", "0", "2")}

\* The tokens after the fourth: burst durations.
Bursts ==
  {<<>>,
   <<Token("0", "1", "5", "5"), Token("0", "0", "A", "B")>>,
   <<Token("0", "0", "1", "0"), Token("0", "6", "7", "9"), Token("0", "0", "1", "0")>>}

\* The token lists of the codes: complete ones, and ones cut after the
\* second or the third token.
TokenLists ==
  {<<m, p, o, r>> \o b :
     m \in Markers, p \in Periods, o \in OnceLengths, r \in RepeatLengths, b \in Bursts}
    \cup {<<m, p>> : m \in Markers, p \in Periods}
    \cup {<<m, p, o>> : m \in Markers, p \in Periods, o \in OnceLengths}

\* The separators of a code: spaces, commas, or both in turn.
Separators == {<<" ">>, <<",">>, <<" ", ",">>}

\* The string of the tokens with the separators between them.
RECURSIVE Separated(_, _, _)
Separated(tokens, seps, k) ==
  IF Len(tokens) = 1 THEN tokens[1]
  ELSE tokens[1] \o <<seps[(k % Len(seps)) + 1]>> \o Separated(Tail(tokens), seps, k + 1)

VARIABLES
  code,       \* the code handed to the translator: its tokens, its
              \* separators and the repeat count
  converted   \* what convertProntoToGlobalCache made of it

translateVars == <<code, converted>>

InitTranslator ==
  /\ code \in [tokens : TokenLists, seps : Separators, repeatCount : RepeatCounts]
  /\ converted = [done |-> FALSE]

\* The translator stays unused.
IdleTranslator ==
  /\ code = [tokens |-> <<Token("0", "0", "0", "0")>>, seps |-> <<" ">>, repeatCount |-> 1]
  /\ converted = [done |-> FALSE]

\* convertProntoToGlobalCache(prontoHex, repeatCount) is called on the code.
Convert ==
  /\ ~converted.done
  /\ \E out \in {convertProntoToGlobalCache(Separated(code.tokens, code.seps, 0),
                                            code.repeatCount)} :
       converted' = [done |-> TRUE, threw |-> out.threw, value |-> out.value]
  /\ UNCHANGED code

(***************************************************************************)
(* Connection of a session, and the sessions of the driver                 *)
(***************************************************************************)

\* The characters of the names and addresses of the device records.
Characters(text) ==
  CASE text = "iTach" -> <<"i", "T", "a", "c", "h">>
    [] text = "GC-100" -> <<"G", "C", "-", "1", "0", "0">>
    [] text = "Flex" -> <<"F", "l", "e", "x">>
    [] text = "192.168.1.10" -> <<"1", "9", "2", ".", "1", "6", "8", ".", "1", ".", "1", "0">>
    [] text = "192.168.1.20:4998" ->
         <<"1", "9", "2", ".", "1", "6", "8", ".", "1", ".", "2", "0", ":", "4", "9", "9", "8">>
    [] text = "192.168.1.30" -> <<"1", "9", "2", ".", "1", "6", "8", ".", "1", ".", "3", "0">>
    [] text = "GC-100-12" -> <<"G", "C", "-", "1", "0", "0", "-", "1", "2">>
    [] text = "192.168.1.40:5000" ->
         <<"1", "9", "2", ".", "1", "6", "8", ".", "1", ".", "4", "0", ":", "5", "0", "0", "0">>

\* str.indexOf(ch): counted from 0, -1 for "not found".
indexOf(str, ch) ==
  LET hits == {i \in 1..Len(str) : str[i] = ch}
  IN IF hits = {} THEN -1 ELSE (CHOOSE i \in hits : \A j \in hits : i <= j) - 1

\* str.substring(from, to) and str.substring(from)
substring(str, from, to) == SubSeq(str, from + 1, to)
substringFrom(str, from) == SubSeq(str, from + 1, Len(str))

\* str.startsWith(prefix)
startsWith(str, prefix) ==
  Len(str) >= Len(prefix) /\ SubSeq(str, 1, Len(prefix)) = prefix

\* The port of a device whose address names none.
DefaultPort == 4998

\* GcDevice: get host()
GcDevice_host(device) ==
  LET address == Characters(device.address)
      pos     == indexOf(address, ":")
  IN IF pos = -1 THEN address ELSE substring(address, 0, pos)

\* GcDevice: get port()
GcDevice_port(device) ==
  LET address == Characters(device.address)
      pos     == indexOf(address, ":")
  IN IF pos = -1 THEN DefaultPort ELSE parseInt(substringFrom(address, pos + 1), 10)

\* Delay before the first keep-alive probe, in milliseconds.
KeepAliveInitialDelay == 10000

\* The states of a UnifiedClient.  The session tells "stopped" and "failed"
\* from the rest; the rest is: an attempt to connect is under way
\* ("connecting"), the connection stands ("connected"), it is being closed
\* on request ("closing").  #client.connected holds in "connected" only.
ClientStates == {"stopped", "connecting", "connected", "closing", "failed"}

\* There is no session with this id.
NoSession == [isNull |-> TRUE]

VARIABLES
  sessionCfg,   \* GlobalCacheDevice.#cfg, per session; NoSession without one
  connected,    \* GlobalCacheDevice.#connected, per session
  client,       \* GlobalCacheDevice.#client: its state, per session
  clientCalls,  \* connect and close requests the last step made to clients
  emitted,      \* STATE_CHANGED notifications the last step emitted
  event,        \* the last call or transport event of a session
  configuredDevices   \* driver.js: Map of device id -> session; its keys in
                      \* insertion order

linkVars == <<sessionCfg, connected, client, clientCalls, emitted, event>>

driverVars == <<configuredDevices>>

\* The sessions and the map of the driver as one value; no request made, no
\* notification emitted and no session created yet.
Link ==
  [sessionCfg |-> sessionCfg, connected |-> connected, client |-> client,
   clientCalls |-> <<>>, emitted |-> <<>>, configuredDevices |-> configuredDevices,
   created |-> {}]

InitLink ==
  /\ sessionCfg = [s \in Sessions |-> NoSession]
  /\ connected = [s \in Sessions |-> FALSE]
  /\ client = [s \in Sessions |-> "stopped"]
  /\ clientCalls = <<>>
  /\ emitted = <<>>
  /\ event = [name |-> "none"]

InitDriver == configuredDevices = <<>>

\* #client.connect(options) and #client.close(options) of session s.
ConnectCall(s, options) == [session |-> s, call |-> "connect", options |-> options]
CloseCall(s, options) == [session |-> s, call |-> "close", options |-> options]

\* Mutant of connect: only a standing connection makes the call a no-op.
connect_WhilePending(d, s) ==
  IF d.client[s] = "connected" THEN d
  ELSE LET tcpKeepAlive ==
             ~startsWith(Characters(d.sessionCfg[s].name), <<"G", "C", "-", "1", "0", "0">>)
       IN [d EXCEPT
             !.clientCalls =
               Append(@, ConnectCall(s, [host |-> GcDevice_host(d.sessionCfg[s]),
                                         port |-> GcDevice_port(d.sessionCfg[s]),
                                         reconnect |-> TRUE,
                                         tcpKeepAlive |-> tcpKeepAlive,
                                         tcpKeepAliveInitialDelay |-> KeepAliveInitialDelay])),
             !.client[s] = "connecting"]

\* Mutant of connect: keep-alive is requested from every device.
connect_KeepAliveAlways(d, s) ==
  IF d.client[s] = "connected" THEN d
  ELSE IF d.client[s] \notin {"stopped", "failed"} THEN d
  ELSE [d EXCEPT
          !.clientCalls =
            Append(@, ConnectCall(s, [host |-> GcDevice_host(d.sessionCfg[s]),
                                      port |-> GcDevice_port(d.sessionCfg[s]),
                                      reconnect |-> TRUE,
                                      tcpKeepAlive |-> TRUE,
                                      tcpKeepAliveInitialDelay |-> KeepAliveInitialDelay])),
          !.client[s] = "connecting"]

\* connect() of session s.  The client starts its attempt to connect.
connect(d, s) ==
  IF d.client[s] = "connected" THEN d
  ELSE IF d.client[s] \notin {"stopped", "failed"} THEN d
  ELSE LET tcpKeepAlive ==
             ~startsWith(Characters(d.sessionCfg[s].name), <<"G", "C", "-", "1", "0", "0">>)
       IN [d EXCEPT
             !.clientCalls =
               Append(@, ConnectCall(s, [host |-> GcDevice_host(d.sessionCfg[s]),
                                         port |-> GcDevice_port(d.sessionCfg[s]),
                                         reconnect |-> TRUE,
                                         tcpKeepAlive |-> tcpKeepAlive,
                                         tcpKeepAliveInitialDelay |-> KeepAliveInitialDelay])),
             !.client[s] = "connecting"]

\* disconnect() of session s.  A client that is connected or connecting
\* starts to close; it will not reconnect.
disconnect(d, s) ==
  [d EXCEPT
     !.connected[s] = FALSE,
     !.clientCalls = Append(@, CloseCall(s, [reconnect |-> FALSE])),
     !.client[s] = IF @ \in {"stopped", "failed"} THEN @ ELSE "closing"]

\* The notification STATE_CHANGED of a session.
StateChanged(id, state) == [id |-> id, state |-> state]

\* #onConnected() of session s
onConnected(d, s) ==
  [d EXCEPT !.connected[s] = TRUE,
            !.emitted = Append(@, StateChanged(d.sessionCfg[s].id, "ONLINE"))]

\* #onClosed() of session s
onClosed(d, s) ==
  [d EXCEPT !.connected[s] = FALSE,
            !.emitted = Append(@, StateChanged(d.sessionCfg[s].id, "OFFLINE"))]

\* Mutant of onError: an error is reported as the end of the connection.
onError_ReportsOffline(d, s) ==
  [d EXCEPT !.connected[s] = FALSE,
            !.emitted = Append(@, StateChanged(d.sessionCfg[s].id, "OFFLINE"))]

\* #onError(err) of session s: the error is logged.
onError(d, s) == d

\* The step leaves the sessions and the map of the driver as d.
SetLink(d) ==
  /\ sessionCfg' = d.sessionCfg
  /\ connected' = d.connected
  /\ client' = d.client
  /\ clientCalls' = d.clientCalls
  /\ emitted' = d.emitted
  /\ configuredDevices' = d.configuredDevices

\* connect() is called on session s.
Connect(s) ==
  /\ sessionCfg[s] # NoSession
  /\ SetLink(connect(Link, s))
  /\ event' = [name |-> "connect", session |-> s]

\* disconnect() is called on session s.
Disconnect(s) ==
  /\ sessionCfg[s] # NoSession
  /\ SetLink(disconnect(Link, s))
  /\ event' = [name |-> "disconnect", session |-> s]

\* The client of session s has connected: it emits "connect".
ClientConnect(s) ==
  /\ sessionCfg[s] # NoSession
  /\ client[s] = "connecting"
  /\ SetLink(onConnected([Link EXCEPT !.client[s] = "connected"], s))
  /\ event' = [name |-> "clientConnect", session |-> s]

\* The connection of session s has ended, or an attempt has: its client
\* emits "close".  A client that was closing stops; another one tries again
\* or gives up.
ClientClose(s) ==
  /\ sessionCfg[s] # NoSession
  /\ client[s] \in {"connecting", "connected", "closing"}
  /\ \E next \in (IF client[s] = "closing" THEN {"stopped"} ELSE {"connecting", "failed"}) :
       SetLink(onClosed([Link EXCEPT !.client[s] = next], s))
  /\ event' = [name |-> "clientClose", session |-> s]

\* The client of session s emits "error".
ClientError(s) ==
  /\ sessionCfg[s] # NoSession
  /\ client[s] # "stopped"
  /\ SetLink(onError(Link, s))
  /\ event' = [name |-> "clientError", session |-> s]

\* The names `key in configuredDevices` holds for: the properties of a Map
\* object, not the keys of its entries.
MapProperties ==
  {"constructor", "size", "get", "set", "has", "delete", "clear", "forEach", "keys",
   "values", "entries", "toString", "valueOf", "hasOwnProperty"}

\* _addConfiguredDevice(device, connect).  A new GlobalCacheDevice is not
\* connected and its client is stopped.  The entity registries of the host
\* library, which _registerAvailableEntities fills, are not part of the model.
_addConfiguredDevice(d, device, doConnect) ==
  LET existing == \E i \in 1..Len(d.configuredDevices) : d.configuredDevices[i] = device.id
      d1 == IF existing
            THEN disconnect(d, device.id)
            ELSE [d EXCEPT !.sessionCfg[device.id] = device,
                           !.connected[device.id] = FALSE,
                           !.client[device.id] = "stopped",
                           !.created = @ \cup {device.id},
                           !.configuredDevices = Append(@, device.id)]
  IN IF doConnect THEN connect(d1, device.id) ELSE d1

\* onDeviceAdded(device)
onDeviceAdded(d, device) == _addConfiguredDevice(d, device, FALSE)

\* _onDeviceRemoved(device).  For null: the loop `for (const configured in
\* configuredDevices)` runs over the enumerable properties of the Map, of
\* which there are none, and then the map is cleared.  For a record: the
\* branch is taken when the id names a property of the Map; there the session
\* found under the id is disconnected, while delete(configured.id) deletes
\* nothing, a session having no id; with no session under the id the branch
\* ends in a TypeError.
_onDeviceRemoved(d, device) ==
  IF device = null
  THEN [d EXCEPT !.configuredDevices = <<>>]
  ELSE IF device.id \in MapProperties
  THEN IF \E i \in 1..Len(d.configuredDevices) : d.configuredDevices[i] = device.id
       THEN disconnect(d, device.id)
       ELSE d
  ELSE d

\* The handlers of the store called in the order of the trace tr.
RECURSIVE Hooks(_, _)
Hooks(d, tr) ==
  IF tr = <<>> THEN d
  ELSE IF Head(tr).ev = "addHandler" THEN Hooks(onDeviceAdded(d, Head(tr).device), Tail(tr))
  ELSE IF Head(tr).ev = "removeHandler"
  THEN Hooks(_onDeviceRemoved(d, Head(tr).device), Tail(tr))
  ELSE Hooks(d, Tail(tr))

\* main() after init(): a session for each loaded record, not connected.
RECURSIVE AddLoaded(_, _)
AddLoaded(d, cfg) ==
  IF cfg = <<>> THEN d
  ELSE AddLoaded(_addConfiguredDevice(d, Head(cfg), FALSE), Tail(cfg))

\* The fields of the sessions in `ids` are those of a new GlobalCacheDevice.
NewSessions(ids) ==
  /\ irId' = [s \in Sessions |-> IF s \in ids THEN 1 ELSE irId[s]]
  /\ lastSendIrPort' = [s \in Sessions |-> IF s \in ids THEN "" ELSE lastSendIrPort[s]]
  /\ lastSendIr' = [s \in Sessions |-> IF s \in ids THEN <<>> ELSE lastSendIr[s]]
  /\ lastCall' = [s \in Sessions |-> IF s \in ids THEN "none" ELSE lastCall[s]]
  /\ lastIr' = [s \in Sessions |-> IF s \in ids THEN NoSend ELSE lastIr[s]]
  /\ UNCHANGED tx

\* The store has made its step and called its handlers: the driver's part.
DriverHooks ==
  /\ \E d \in {Hooks(Link, trace')} : SetLink(d) /\ NewSessions(d.created)
  /\ event' = [name |-> "store"]

\* main(): the process starts with no session, loads the configuration and
\* makes the sessions of the loaded records.
main ==
  /\ init
  /\ \E d \in {AddLoaded([Link EXCEPT !.configuredDevices = <<>>], config')} :
       SetLink(d) /\ NewSessions(d.created)
  /\ event' = [name |-> "main"]

\* The keys `for (const key in configuredDevices)` runs over: the enumerable
\* properties of the Map object.  The entries of a Map are no properties of
\* it, and the methods of its prototype are not enumerable.
ForIn(map) == <<>>

\* configuredDevices[key].connect() for the keys in turn.
RECURSIVE ConnectEach(_, _)
ConnectEach(d, keys) ==
  IF keys = <<>> THEN d ELSE ConnectEach(connect(d, Head(keys)), Tail(keys))

\* configuredDevices[key].disconnect() for the keys in turn.
RECURSIVE DisconnectEach(_, _)
DisconnectEach(d, keys) ==
  IF keys = <<>> THEN d ELSE DisconnectEach(disconnect(d, Head(keys)), Tail(keys))

\* uc.on(uc.EVENTS.CONNECT) and uc.on(uc.EVENTS.EXIT_STANDBY)
CONNECT ==
  /\ initialized
  /\ SetLink(ConnectEach(Link, ForIn(configuredDevices)))
  /\ \E name \in {"CONNECT", "EXIT_STANDBY"} : event' = [name |-> name]

\* uc.on(uc.EVENTS.DISCONNECT) and uc.on(uc.EVENTS.ENTER_STANDBY)
DISCONNECT ==
  /\ initialized
  /\ SetLink(DisconnectEach(Link, ForIn(configuredDevices)))
  /\ \E name \in {"DISCONNECT", "ENTER_STANDBY"} : event' = [name |-> name]

\* uc.on(uc.EVENTS.SUBSCRIBE_ENTITIES) for an entity of the device deviceId
\* that the remote has configured.
SUBSCRIBE_ENTITIES(deviceId) ==
  /\ initialized
  /\ \E d \in {IF \E i \in 1..Len(configuredDevices) : configuredDevices[i] = deviceId
               THEN connect(Link, deviceId)
               ELSE IF contains(config, deviceId)
               THEN _addConfiguredDevice(Link, config[findIndex(config, deviceId)], TRUE)
               ELSE Link} :
       SetLink(d) /\ NewSessions(d.created)
  /\ event' = [name |-> "SUBSCRIBE_ENTITIES", deviceId |-> deviceId]

restVars == <<translateVars, linkVars, driverVars>>

InitRest == IdleTranslator /\ InitLink /\ InitDriver

(***************************************************************************)
(* Specifications                                                          *)
(***************************************************************************)

vars == <<sessionVars, storeVars, wizardVars, restVars>>

Init == InitSession /\ InitStore /\ InitWizard /\ InitRest

\* <<code, repeat>> of the sendPronto calls on the driven session.
SessionCalls == {<<ProntoSpaces, 0>>, <<ProntoCommas, 2>>}

\* The session that is driven; the other one is left alone.
Driven == "gc1"

SendInfrared ==
  /\ \E port \in Ports, call \in SessionCalls : sendPronto(Driven, port, call[1], call[2])
  /\ UNCHANGED <<storeVars, wizardVars, restVars>>

SendRaw ==
  /\ \E data \in RawMessages : send(Driven, data)
  /\ UNCHANGED <<storeVars, wizardVars, restVars>>

NextSession == SendInfrared \/ SendRaw

\* One session through its whole range of command ids; the store is not used.
InitOneSession == InitSession /\ InitStore /\ InitWizard /\ InitRest /\ file = Absent

SpecSession == InitOneSession /\ [][NextSession]_vars

Start == init /\ UNCHANGED <<sessionVars, wizardVars, restVars>>

AddOrUpdate ==
  /\ \E device \in DeviceRecords, ok \in BOOLEAN : addOrUpdate(device, ok)
  /\ UNCHANGED <<sessionVars, wizardVars, restVars>>

Remove ==
  /\ \E gcId \in Sessions : remove(gcId)
  /\ UNCHANGED <<sessionVars, wizardVars, restVars>>

Clear == clear /\ UNCHANGED <<sessionVars, wizardVars, restVars>>

Store ==
  /\ \E ok \in BOOLEAN : store(ok)
  /\ UNCHANGED <<sessionVars, wizardVars, restVars>>

UnlinkDone ==
  /\ \E ok \in BOOLEAN : unlinkDone(ok)
  /\ UNCHANGED <<sessionVars, wizardVars, restVars>>

NextStore == Start \/ AddOrUpdate \/ Remove \/ Clear \/ Store \/ UnlinkDone

\* The configuration store and its file, over process starts.
SpecStore == Init /\ [][NextStore]_vars

SetupStart ==
  /\ \E reconfigure \in BOOLEAN, env \in Envs :
        DriverSetup(DriverSetupRequest(reconfigure), env)
  /\ UNCHANGED <<sessionVars, restVars>>

SetupUserData ==
  /\ \E inputValues \in UserInputs, env \in Envs :
        DriverSetup(UserDataResponse(inputValues), env)
  /\ UNCHANGED <<sessionVars, restVars>>

SetupUserConfirmation ==
  /\ \E env \in Envs : DriverSetup(UserConfirmationResponse, env)
  /\ UNCHANGED <<sessionVars, restVars>>

SetupAbort ==
  /\ DriverSetup(AbortDriverSetup, Quiet)
  /\ UNCHANGED <<sessionVars, restVars>>

NextWizard ==
  SetupStart \/ SetupUserData \/ SetupUserConfirmation \/ SetupAbort \/ UnlinkDone

InitSetup == InitSession /\ InitConfigured /\ InitWizard /\ InitRest

\* The setup flow of the remote on a store that init() has loaded.
SpecWizard == InitSetup /\ [][NextWizard]_vars

\* The messages of the remote.
SetupMessages ==
  {DriverSetupRequest(reconfigure) : reconfigure \in BOOLEAN}
    \cup {UserDataResponse(inputValues) : inputValues \in UserInputs}
    \cup {UserConfirmationResponse, AbortDriverSetup}

\* A message that starts a discovery is taken up to the await of the scan
\* or of the question to the typed address.
SetupAwaits ==
  /\ \E m \in SetupMessages : DriverSetupAwaits(m)
  /\ UNCHANGED <<sessionVars, restVars>>

\* The scan or the question is over.
SetupResumes ==
  /\ \E env \in Envs : DriverSetupResumes(env)
  /\ UNCHANGED <<sessionVars, restVars>>

\* Any other message is handled to its answer, also while a discovery waits.
\* Its handler does not scan.
SetupAnswers ==
  /\ \E m \in SetupMessages, env \in {e \in Envs : e.scan = <<>>} :
       /\ ~reachesDiscovery([setupStep |-> setupStep], m)
       /\ DriverSetup(m, env)
  /\ UNCHANGED <<sessionVars, restVars>>

NextDiscovering == SetupAwaits \/ SetupResumes \/ SetupAnswers \/ UnlinkDone

\* The setup flow with the discovery as the event loop runs it: the handler
\* that waits for a discovery yields to the messages that arrive meanwhile.
SpecDiscovering == InitSetup /\ [][NextDiscovering]_vars

\* Largest command id the sessions reach when both of them send.
MaxSharedId == 4

\* The calls made on the two sessions: two codes that translate, one of them
\* also without a repeat count, and one code that does not translate.
SharedCalls == SessionCalls \cup {<<ProntoSpaces, undefined>>, <<ProntoNotRaw, 1>>}

SendInfraredOn ==
  /\ \E s \in Sessions, port \in Ports, call \in SharedCalls :
       /\ irId[s] < MaxSharedId
       /\ sendPronto(s, port, call[1], call[2])
  /\ UNCHANGED <<storeVars, wizardVars, restVars>>

SendRawOn ==
  /\ \E s \in Sessions, data \in RawMessages : send(s, data)
  /\ UNCHANGED <<storeVars, wizardVars, restVars>>

NextSessions == SendInfraredOn \/ SendRawOn

\* Two sessions, each called in any order.
SpecSessions == InitOneSession /\ [][NextSessions]_vars

\* The sessions there are when connections are made: one for each id.
SessionConfigs ==
  {f \in [Sessions -> DeviceRecords
                        \cup {GcDevice(s, "GC-100-12", "192.168.1.40:5000", <<>>) :
                                s \in Sessions}] :
     \A s \in Sessions : f[s].id = s}

InitSessionsUp ==
  /\ InitSession /\ InitStore /\ InitWizard /\ IdleTranslator /\ InitDriver
  /\ file = Absent
  /\ sessionCfg \in SessionConfigs
  /\ connected = [s \in Sessions |-> FALSE]
  /\ client = [s \in Sessions |-> "stopped"]
  /\ clientCalls = <<>>
  /\ emitted = <<>>
  /\ event = [name |-> "none"]

Connects ==
  /\ \E s \in Sessions : Connect(s)
  /\ UNCHANGED <<sessionVars, storeVars, wizardVars, translateVars>>

Disconnects ==
  /\ \E s \in Sessions : Disconnect(s)
  /\ UNCHANGED <<sessionVars, storeVars, wizardVars, translateVars>>

ClientConnects ==
  /\ \E s \in Sessions : ClientConnect(s)
  /\ UNCHANGED <<sessionVars, storeVars, wizardVars, translateVars>>

ClientCloses ==
  /\ \E s \in Sessions : ClientClose(s)
  /\ UNCHANGED <<sessionVars, storeVars, wizardVars, translateVars>>

ClientErrors ==
  /\ \E s \in Sessions : ClientError(s)
  /\ UNCHANGED <<sessionVars, storeVars, wizardVars, translateVars>>

NextLink == Connects \/ Disconnects \/ ClientConnects \/ ClientCloses \/ ClientErrors

\* Two sessions, their callers and their clients.
SpecLink == InitSessionsUp /\ [][NextLink]_vars

\* The records handed to addOrUpdate while the driver runs: one for each id,
\* and one that updates the first.
DriverRecords ==
  {r \in DeviceRecords :
     <<r.id, r.name>> \in {<<"gc1", "iTach">>, <<"gc1", "Flex">>, <<"gc2", "GC-100">>}}

\* The file the driver may find when it starts: none, or one of an earlier run.
DriverFiles ==
  {Absent} \cup {Text(stringify(<<a>>)) : a \in DriverRecords}
           \cup {Text(stringify(<<a, b>>)) :
                   <<a, b>> \in {p \in DriverRecords \X DriverRecords : p[1].id # p[2].id}}

InitDriverStore ==
  /\ InitSession /\ InitStore /\ InitWizard /\ InitRest
  /\ file \in DriverFiles

DriverStart == main /\ UNCHANGED <<wizardVars, translateVars>>

DriverAddOrUpdate ==
  /\ \E device \in DriverRecords : addOrUpdate(device, TRUE)
  /\ DriverHooks
  /\ UNCHANGED <<wizardVars, translateVars>>

DriverRemove ==
  /\ \E gcId \in Sessions : remove(gcId)
  /\ DriverHooks
  /\ UNCHANGED <<wizardVars, translateVars>>

DriverClear ==
  /\ clear
  /\ DriverHooks
  /\ UNCHANGED <<wizardVars, translateVars>>

DriverUnlinkDone ==
  /\ unlinkDone(TRUE)
  /\ SetLink(Link)
  /\ event' = [name |-> "unlinkDone"]
  /\ UNCHANGED <<sessionVars, wizardVars, translateVars>>

HostConnects == CONNECT /\ UNCHANGED <<sessionVars, storeVars, wizardVars, translateVars>>

HostDisconnects == DISCONNECT /\ UNCHANGED <<sessionVars, storeVars, wizardVars, translateVars>>

HostSubscribes ==
  /\ \E deviceId \in Sessions : SUBSCRIBE_ENTITIES(deviceId)
  /\ UNCHANGED <<storeVars, wizardVars, translateVars>>

NextDriver ==
  \/ DriverStart \/ DriverAddOrUpdate \/ DriverRemove \/ DriverClear \/ DriverUnlinkDone
  \/ HostConnects \/ HostDisconnects \/ HostSubscribes

\* The store with the handlers of the driver installed.
SpecDriver == InitDriverStore /\ [][NextDriver]_vars

Translate == Convert /\ UNCHANGED <<sessionVars, storeVars, wizardVars, linkVars, driverVars>>

NextTranslator == Translate

InitCodes ==
  InitSession /\ InitStore /\ InitWizard /\ InitTranslator /\ InitLink /\ InitDriver
    /\ file = Absent

\* The translator applied to each of the codes.
SpecTranslator == InitCodes /\ [][NextTranslator]_vars

(***************************************************************************)
(* Claims about the session                                                *)
(***************************************************************************)

\* The step is a sendPronto of session s that dispatched its message.
IrSendStep(s) ==
  /\ tx' # <<>>
  /\ tx'[1].session = s
  /\ tx'[1].msg[1] = "sendir"

\* The id after id in the ring 1..65535.
Advanced(id) == (id % 65535) + 1

\* C1: two consecutive sendInfrared calls of a session with identical (port,
\* code, repeat) are sent with the same command id, and a sendInfrared whose
\* (port, translated payload) differs from the session's previous infrared
\* send is sent with the previous id advanced by 1 (65535 advances to 1).
C1_IdSequencing ==
  [][\A s \in Sessions :
       IrSendStep(s) =>
         /\ lastCall'[s] = "irAgain" => tx'[1].msg[3] = lastIr[s].id
         /\ (lastIr[s].sent /\ <<tx'[1].msg[2], tx'[1].msg[4]>>
                                 # <<lastIr[s].port, lastIr[s].payload>>)
              => tx'[1].msg[3] = Advanced(lastIr[s].id)]_vars

\* C1 witness: a call repeated right after the call that wrapped the id.
C1_Witness ==
  /\ lastCall[Driven] = "irAgain"
  /\ lastIr[Driven].id = 1
  /\ tx[1].msg[3] = 1

\* C2: the command id of every session is in 1..65535 in every reachable
\* state, and an id of 65535 that changes becomes 1.
C2_IdRange ==
  /\ [](\A s \in Sessions : irId[s] \in 1..65535)
  /\ [][\A s \in Sessions :
          (irId[s] = 65535 /\ irId'[s] # irId[s]) => irId'[s] = 1]_vars

\* C2 witness: the id is 1 again after an infrared message was sent with it.
C2_Witness ==
  /\ lastIr[Driven].sent
  /\ irId[Driven] = 1
  /\ tx # <<>> /\ tx[1].msg = <<"sendir", lastIr[Driven].port, 1, lastIr[Driven].payload>>

(***************************************************************************)
(* Claims about the configuration store                                    *)
(***************************************************************************)

\* The list cfg without its element at position i.
Without(cfg, i) == SubSeq(cfg, 1, i - 1) \o SubSeq(cfg, i + 1, Len(cfg))

\* The handler calls among the events of an operation.
HandlerCalls(events) ==
  SelectSeq(events, LAMBDA e : e.ev \in {"addHandler", "removeHandler"})

\* The operation ran store() once, on the list cfg, as its k-th event: it
\* asked for the file to be written with the serialised list, and the file
\* holds it unless the write failed.
Persisted(k, cfg) ==
  /\ Len(trace') >= k
  /\ trace'[k].ev = "writeFileSync"
  /\ trace'[k].content = stringify(cfg)
  /\ file' = IF trace'[k].ok THEN Text(stringify(cfg)) ELSE file
  /\ \A j \in 1..Len(trace') : trace'[j].ev = "writeFileSync" => j = k

\* The file is a JSON array with an item of this id.
FileHasId(f, gcId) ==
  /\ f.exists
  /\ f.parses
  /\ f.json.t = "array"
  /\ \E i \in 1..Len(f.json.v) : Member(f.json.v[i], "id") = JString(gcId)

\* C3: no two records of the store have the same id.
C3_UniqueIds ==
  \A i, j \in 1..Len(config) : i # j => config[i].id # config[j].id

\* C3 witness: addOrUpdate of an id that the store held, next to another record.
C3_Witness ==
  /\ op.name = "addOrUpdate"
  /\ HandlerCalls(trace) = <<>>
  /\ Len(config) = 2
  /\ config[2].id = op.device.id

\* C4: addOrUpdate of a record whose id the store does not hold appends the
\* record at the end of the list, persists the list, and calls the add
\* handler once, with that record, within the call.
C4_AddAppends ==
  [][(op'.name = "addOrUpdate" /\ ~contains(config, op'.device.id)) =>
       /\ config' = Append(config, op'.device)
       /\ Persisted(1, config')
       /\ HandlerCalls(trace') = <<AddedEv(op'.device)>>]_vars

\* C4 witness: a record was appended behind another one, written and announced.
C4_Witness ==
  /\ op.name = "addOrUpdate"
  /\ Len(config) = 2
  /\ config[2] = op.device
  /\ HandlerCalls(trace) = <<AddedEv(op.device)>>
  /\ file = Text(stringify(config))

\* C5: addOrUpdate of a record whose id the store holds merges its fields
\* into the entry of that id and persists the list; it calls no handler, and
\* the number of records, the position of the entry and all other records
\* stay as they were.
C5_UpdateInPlace ==
  [][(op'.name = "addOrUpdate" /\ contains(config, op'.device.id)) =>
       LET device == op'.device
           i == CHOOSE k \in 1..Len(config) : config[k].id = device.id
       IN /\ Len(config') = Len(config)
          /\ \A j \in 1..Len(config) : j # i => config'[j] = config[j]
          /\ DOMAIN config'[i] = DOMAIN config[i] \cup DOMAIN device
          /\ \A f \in DOMAIN device : config'[i][f] = device[f]
          /\ \A f \in DOMAIN config[i] \ DOMAIN device : config'[i][f] = config[i][f]
          /\ Persisted(1, config')
          /\ HandlerCalls(trace') = <<>>]_vars

\* C5 witness: the first of two records was updated and written.
C5_Witness ==
  /\ op.name = "addOrUpdate"
  /\ HandlerCalls(trace) = <<>>
  /\ Len(config) = 2
  /\ config[1] = op.device
  /\ file = Text(stringify(config))

\* C6: remove of an id the store does not hold returns false, calls no
\* handler and leaves list and file as they were; remove of an id it holds
\* returns true, takes exactly that record out of the list and calls the
\* remove handler once, with that record.
C6_Remove ==
  [][op'.name = "remove" =>
       IF contains(config, op'.gcId)
       THEN \E i \in 1..Len(config) :
              /\ config[i].id = op'.gcId
              /\ config' = Without(config, i)
              /\ ~contains(config', op'.gcId)
              /\ ret' = "true"
              /\ HandlerCalls(trace') = <<RemovedEv(config[i])>>
       ELSE /\ ret' = "false"
            /\ trace' = <<>>
            /\ config' = config
            /\ file' = file]_vars

\* C6 witness: the first of two records was removed and the handler told so.
C6_Witness ==
  /\ op.name = "remove"
  /\ ret = "true"
  /\ Len(config) = 1
  /\ Len(trace) = 1
  /\ trace[1].ev = "removeHandler"
  /\ trace[1].device.id = op.gcId

\* C7 as claimed: when remove returns true it has persisted the list, which
\* then no longer holds the removed record.
C7_RemovePersists ==
  [][(op'.name = "remove" /\ ret' = "true") => Persisted(1, config')]_vars

\* C7, amended: remove takes the record out of the list in memory only; it
\* writes nothing and leaves the file as it was.  The file is rewritten
\* without the removed record by the store() that follows it.
C7_RemoveThenStore ==
  [][/\ op'.name = "remove" =>
          /\ file' = file
          /\ \A k \in 1..Len(trace') : trace'[k].ev # "writeFileSync"
     /\ (op'.name = "store" /\ op.name = "remove" /\ ret = "true") =>
          /\ Persisted(1, config)
          /\ ret' = "true" => ~FileHasId(file', op.gcId)]_vars

\* C7 witness: remove has returned true and the file still holds the record.
C7_Witness ==
  /\ op.name = "remove"
  /\ ret = "true"
  /\ ~contains(config, op.gcId)
  /\ FileHasId(file, op.gcId)

\* C8: clear leaves the list empty and calls the remove handler once, with
\* null, also when the list was empty before.
C8_ClearFiresOnce ==
  [][op'.name = "clear" =>
       /\ config' = <<>>
       /\ HandlerCalls(trace') = <<RemovedEv(null)>>]_vars

\* C8 witness: clear on an empty list has called the handler.
C8_Witness ==
  /\ op.name = "clear"
  /\ op.wasEmpty
  /\ HandlerCalls(trace) = <<RemovedEv(null)>>
  /\ config = <<>>

\* C9 as claimed: a process start that follows a successful store() loads
\* the list that was stored: the same records in the same order, with every
\* port descriptor.
C9_RoundTrip ==
  [][(/\ op'.name = "init"
      /\ op.name \in {"store", "addOrUpdate"}
      /\ trace[1].ok) => config' = config]_vars

C37_DeletionSparesLaterWrite ==
  [][(/\ op'.name = "unlinkDone" /\ op'.ok
      /\ pendingUnlink' = 0
      /\ op.name = "addOrUpdate" /\ trace[1].ok)
       => (file'.exists /\ FileHasId(file', op.device.id))]_vars

(***************************************************************************)
(* Claims about the setup flow                                             *)
(***************************************************************************)

\* The step is a message of the remote handled by driverSetupHandler.
Handles(type) == op'.name = "driverSetupHandler" /\ msg'.type = type

\* The last step was such a message.
Handled(type) == op.name = "driverSetupHandler" /\ msg.type = type

\* The calls of the remove handler with null among the events.
ClearCalls(events) ==
  SelectSeq(events, LAMBDA e : e.ev = "removeHandler" /\ e.device = null)

\* C11: whatever the state of the flow, a start that is no reconfiguration
\* clears the store (one call of the remove handler with null, no record
\* left), and its scan runs in step DISCOVER against the empty store; the
\* flow is then in DISCOVER, or in DEVICE_CHOICE when the scan has offered
\* candidates.
C11_StartClears ==
  [][(Handles("DriverSetupRequest") /\ ~msg'.reconfigure)
       => /\ config' = <<>>
          /\ Len(ClearCalls(trace')) = 1
          /\ io'.scanned
          /\ io'.setupStep = SetupSteps.DISCOVER
          /\ io'.config = <<>>
          /\ setupStep' = IF response'.action = "RequestUserInput"
                          THEN SetupSteps.DEVICE_CHOICE ELSE SetupSteps.DISCOVER]_vars

\* A first setup was started in the middle of a device choice, with two
\* devices configured, and its scan has found candidates.
C11_Witness ==
  /\ Handled("DriverSetupRequest")
  /\ ~msg.reconfigure
  /\ \E e \in {trace[i] : i \in 1..Len(trace)} : e.ev = "unlink"
  /\ io.scanned
  /\ setupStep = SetupSteps.DEVICE_CHOICE
  /\ config = <<>>

\* C12: a start for reconfiguration puts the flow in CONFIGURATION_MODE and
\* leaves the store alone; its screen offers the action add alone when no
\* device is configured, add, remove and reset otherwise, and lists the
\* configured records in their order (one placeholder without id when there
\* is none).
C12_ReconfigureOffers ==
  [][(Handles("DriverSetupRequest") /\ msg'.reconfigure)
       => /\ setupStep' = SetupSteps.CONFIGURATION_MODE
          /\ response'.action = "RequestUserInput"
          /\ response'.settings[2].items
               = (IF config = <<>> THEN <<"add">> ELSE <<"add", "remove", "reset">>)
          /\ IF config = <<>>
             THEN response'.settings[1].items = <<[id |-> "", label |-> "---"]>>
             ELSE /\ Len(response'.settings[1].items) = Len(config)
                  /\ \A i \in 1..Len(config) :
                       response'.settings[1].items[i].id = config[i].id
          /\ config' = config
          /\ file' = file
          /\ trace' = <<>>]_vars

\* A reconfiguration was started with two devices configured.
C12_Witness ==
  /\ Handled("DriverSetupRequest")
  /\ msg.reconfigure
  /\ Len(config) = 2
  /\ Len(response.settings[2].items) = 3

\* The step is a response of the configuration screen with this action.
ConfigurationResponse(action) ==
  /\ setupStep = SetupSteps.CONFIGURATION_MODE
  /\ Handles("UserDataResponse")
  /\ has(msg'.inputValues, "action")
  /\ get(msg'.inputValues, "action") = action

\* C13: in CONFIGURATION_MODE a remove response for a configured device
\* takes its record out of the store, writes the new list to the file and
\* answers SetupComplete; for an id that is not configured it answers
\* SetupError(OTHER) and leaves records and file as they are.
C13_RemoveResponse ==
  [][(ConfigurationResponse("remove") /\ has(msg'.inputValues, "choice"))
       => LET choice == get(msg'.inputValues, "choice")
          IN IF \E i \in 1..Len(config) : config[i].id = choice
             THEN /\ \E i \in 1..Len(config) :
                       config[i].id = choice /\ config' = Without(config, i)
                  /\ Persisted(2, config')
                  /\ response' = SetupComplete
             ELSE /\ response' = SetupError(<<"IntegrationSetupError", "OTHER">>)
                  /\ config' = config
                  /\ file' = file
                  /\ trace' = <<>>]_vars

\* A configured device was removed on the configuration screen and the
\* file holds the list without it.
C13_Witness ==
  /\ Handled("UserDataResponse")
  /\ setupStep = SetupSteps.CONFIGURATION_MODE
  /\ response = SetupComplete
  /\ Len(config) = 1
  /\ file = Text(stringify(config))
  /\ \E e \in {trace[i] : i \in 1..Len(trace)} : e.ev = "removeHandler"

\* C14: in CONFIGURATION_MODE a reset response clears the store and goes to
\* DISCOVER with the add-device flag unset; an add response sets the flag,
\* leaves the store alone and goes to DISCOVER; any action other than add,
\* remove and reset is answered with SetupError(OTHER), step and store as
\* they were.
C14_ResetAddOther ==
  [][/\ ConfigurationResponse("reset")
          => /\ config' = <<>>
             /\ Len(ClearCalls(trace')) = 1
             /\ setupStep' = SetupSteps.DISCOVER
             /\ ~cfgAddDevice'
     /\ ConfigurationResponse("add")
          => /\ cfgAddDevice'
             /\ setupStep' = SetupSteps.DISCOVER
             /\ config' = config
             /\ file' = file
             /\ pendingUnlink' = pendingUnlink
             /\ trace' = <<>>
     /\ (/\ setupStep = SetupSteps.CONFIGURATION_MODE
         /\ Handles("UserDataResponse")
         /\ has(msg'.inputValues, "action")
         /\ get(msg'.inputValues, "action") \notin {"add", "remove", "reset"})
          => /\ response' = SetupError(<<"IntegrationSetupError", "OTHER">>)
             /\ setupStep' = setupStep
             /\ config' = config
             /\ file' = file
             /\ pendingUnlink' = pendingUnlink
             /\ trace' = <<>>]_vars

\* A reset on the configuration screen has cleared a store with devices.
C14_Witness ==
  /\ Handled("UserDataResponse")
  /\ has(msg.inputValues, "action")
  /\ get(msg.inputValues, "action") = "reset"
  /\ setupStep = SetupSteps.DISCOVER
  /\ ~cfgAddDevice
  /\ config = <<>>
  /\ \E e \in {trace[i] : i \in 1..Len(trace)} : e.ev = "unlink"

\* The ids of the check boxes a handler has offered.
Offered(action) ==
  IF action.action = "RequestUserInput" /\ action.title = "Select your Global Caché products"
  THEN [i \in 1..Len(action.settings) |-> action.settings[i].id]
  ELSE <<>>

\* The step is a response of the discovery screen with an address typed.
TypedAddress ==
  /\ setupStep = SetupSteps.DISCOVER
  /\ Handles("UserDataResponse")
  /\ has(msg'.inputValues, "address")
  /\ get(msg'.inputValues, "address") # ""

ToOffer(found, adding, cfg) ==
  LET fit(entry) ==
        /\ \E i \in 1..Len(entry[2]) : entry[2][i][1] = "UUID"
        /\ ~(\E i \in 1..Len(entry[2]) : entry[2][i] = <<"Make", "Unfolded Circle">>)
        /\ ~(adding /\ \E i \in 1..Len(entry[2]), j \in 1..Len(cfg) :
                         entry[2][i] = <<"UUID", cfg[j].id>>)
      kept == SelectSeq(found, fit)
  IN [i \in 1..Len(kept) |-> get(kept[i][2], "UUID")]

\* C16: after a scan the candidates offered are the scanned entries that
\* have a UUID, are no dock of the remote's maker and, when the add-device
\* flag is set, are not in the store; without the flag a configured entry
\* is offered.
C16_ScanFilter ==
  [][(op'.name = "driverSetupHandler" /\ io'.scanned)
       => /\ discoveredDevices' \in Scans
          /\ Offered(response') = ToOffer(discoveredDevices', cfgAddDevice', io'.config)]_vars

\* A scan for a device to add has found a configured device, a new one and
\* a dock, and offers the new one.
C16_Witness ==
  /\ op.name = "driverSetupHandler"
  /\ io.scanned
  /\ cfgAddDevice
  /\ Len(discoveredDevices) = 3
  /\ Len(config) = 1
  /\ Offered(response) = <<UuidB>>

\* C17: a scan that leaves no candidate is answered with a request for
\* confirmation and the flow stays in DISCOVER, where a confirmation of the
\* user runs the scan again; a scan that leaves candidates is answered with
\* their check boxes and the flow goes to DEVICE_CHOICE.
C17_RetryOrChoice ==
  [][/\ (op'.name = "driverSetupHandler" /\ io'.scanned)
          => IF ToOffer(discoveredDevices', cfgAddDevice', io'.config) = <<>>
             THEN /\ response'.action = "RequestUserConfirmation"
                  /\ setupStep' = SetupSteps.DISCOVER
             ELSE /\ response'.action = "RequestUserInput"
                  /\ Offered(response') # <<>>
                  /\ setupStep' = SetupSteps.DEVICE_CHOICE
     /\ (setupStep = SetupSteps.DISCOVER /\ Handles("UserConfirmationResponse"))
          => io'.scanned]_vars

\* The user has confirmed to search again and the scan has again found no
\* candidate.
C17_Witness ==
  /\ Handled("UserConfirmationResponse")
  /\ io.scanned
  /\ response.action = "RequestUserConfirmation"
  /\ setupStep = SetupSteps.DISCOVER
  /\ Len(discoveredDevices) = 2

\* The entries of a device choice that are selected and among the
\* discovered devices, in the order of the response.
Selected(inputValues, found) ==
  SelectSeq(inputValues,
            LAMBDA e : e[2] = "true" /\ \E i \in 1..Len(found) : found[i][1] = e[1])

\* The ids of the records of a list.
Ids(cfg) == {cfg[i].id : i \in 1..Len(cfg)}

\* The step is a response to the device choice.
DeviceChoice == setupStep = SetupSteps.DEVICE_CHOICE /\ Handles("UserDataResponse")

\* C18: a response to the device choice asks the selected candidates for
\* their device information one after another and commits each that
\* answers with addOrUpdate.  The first that does not answer ends the
\* response with SetupError(OTHER): the candidates before it are in the
\* store, it and those after it are not committed.  When all answer, the
\* answer is SetupComplete and every selected candidate is in the store.
C18_NoRollback ==
  [][DeviceChoice
       => LET selected == Selected(msg'.inputValues, discoveredDevices)
              n == Len(io'.probed)
              failed == n > 0 /\ ~io'.probed[n].ok
              committed == {selected[i][1] : i \in 1..(IF failed THEN n - 1 ELSE n)}
              writes == SelectSeq(trace', LAMBDA e : e.ev = "writeFileSync")
          IN /\ n <= Len(selected)
             /\ \A i \in 1..n :
                  /\ io'.probed[i].address
                       = get(get(discoveredDevices, selected[i][1]), "address")
                  /\ i < n => io'.probed[i].ok
             /\ IF failed THEN response' = SetupError(<<"SetupError", "OTHER">>)
                ELSE n = Len(selected) /\ response' = SetupComplete
             /\ Ids(config') = Ids(config) \cup committed
             /\ Len(writes) = Cardinality(committed)
             /\ \A i \in 1..Len(config) : config'[i].id = config[i].id]_vars

\* Of two selected candidates the first was committed and the second did
\* not answer.
C18_Witness ==
  /\ Handled("UserDataResponse")
  /\ setupStep = SetupSteps.DEVICE_CHOICE
  /\ response = SetupError(<<"SetupError", "OTHER">>)
  /\ Len(io.probed) = 2
  /\ io.probed[1].ok
  /\ Ids(config) = {UuidA}

\* C19: after a first setup whose scan has offered candidates, a response
\* that selects one of the discovered devices, which answers, ends with
\* SetupComplete and the store holds one record, with the id of that
\* candidate.
C19_EndToEnd ==
  [][(/\ msg.type = "DriverSetupRequest"
      /\ ~msg.reconfigure
      /\ DeviceChoice
      /\ Len(Selected(msg'.inputValues, discoveredDevices)) = 1
      /\ Len(io'.probed) = 1
      /\ io'.probed[1].ok)
       => /\ response' = SetupComplete
          /\ Len(config') = 1
          /\ config'[1].id = Selected(msg'.inputValues, discoveredDevices)[1][1]]_vars

\* The one candidate selected after a first setup is the one record.
C19_Witness ==
  /\ Handled("UserDataResponse")
  /\ setupStep = SetupSteps.DEVICE_CHOICE
  /\ response = SetupComplete
  /\ ~cfgAddDevice
  /\ Len(io.probed) = 1
  /\ Len(config) = 1
  /\ config[1].id = UuidB
  /\ Len(discoveredDevices) = 3

\* C20: an abort, in any step, empties the discovered devices and sets the
\* step to INIT; records and file of the store stay as they are, no file
\* operation is started and no handler of the store is called.
C20_Abort ==
  [][Handles("AbortDriverSetup")
       => /\ discoveredDevices' = <<>>
          /\ setupStep' = SetupSteps.INIT
          /\ config' = config
          /\ file' = file
          /\ pendingUnlink' = pendingUnlink
          /\ trace' = <<>>]_vars

\* The addition of a device was aborted with a device configured.
C20_Witness ==
  /\ Handled("AbortDriverSetup")
  /\ setupStep = SetupSteps.INIT
  /\ cfgAddDevice
  /\ config # <<>>
  /\ file.exists

\* The step is a message that fits no branch of the current step: a
\* confirmation outside DISCOVER, user data in INIT, or user data without
\* action in CONFIGURATION_MODE.
Unrecognized ==
  \/ Handles("UserConfirmationResponse") /\ setupStep # SetupSteps.DISCOVER
  \/ Handles("UserDataResponse") /\ setupStep = SetupSteps.INIT
  \/ /\ Handles("UserDataResponse")
     /\ setupStep = SetupSteps.CONFIGURATION_MODE
     /\ ~has(msg'.inputValues, "action")

\* C21: input that the current step does not take is answered with a
\* SetupError without error type and leaves the step, the add-device flag,
\* the discovered devices and the store as they are.
C21_UnrecognizedInput ==
  [][Unrecognized
       => /\ response' = SetupError(<<>>)
          /\ setupStep' = setupStep
          /\ cfgAddDevice' = cfgAddDevice
          /\ discoveredDevices' = discoveredDevices
          /\ config' = config
          /\ file' = file
          /\ pendingUnlink' = pendingUnlink
          /\ trace' = <<>>]_vars

\* User data without an action was refused on the configuration screen.
C21_Witness ==
  /\ Handled("UserDataResponse")
  /\ ~has(msg.inputValues, "action")
  /\ setupStep = SetupSteps.CONFIGURATION_MODE
  /\ response = SetupError(<<>>)
  /\ config # <<>>

\* C22: after every start, whatever the flow was doing, the add-device flag
\* is unset, and the step the start ends in depends on the start and its
\* scan alone: CONFIGURATION_MODE for a reconfiguration, else DEVICE_CHOICE
\* when the scan offered every scanned device it would offer without the
\* flag, DISCOVER when there was none to offer.
C22_StartResets ==
  [][Handles("DriverSetupRequest")
       => /\ ~cfgAddDevice'
          /\ setupStep' =
               IF msg'.reconfigure THEN SetupSteps.CONFIGURATION_MODE
               ELSE IF ToOffer(discoveredDevices', FALSE, config) # <<>>
               THEN SetupSteps.DEVICE_CHOICE ELSE SetupSteps.DISCOVER
          /\ ~msg'.reconfigure
               => Offered(response') = ToOffer(discoveredDevices', FALSE, config)]_vars

\* A reconfiguration was started after devices were chosen.
C22_Witness ==
  /\ Handled("DriverSetupRequest")
  /\ msg.reconfigure
  /\ ~cfgAddDevice
  /\ setupStep = SetupSteps.CONFIGURATION_MODE
  /\ Ids(config) = {UuidA, UuidB}
  /\ config[1].id = UuidA

(***************************************************************************)
(* More claims about the session                                           *)
(***************************************************************************)

\* The ids of a sequence of ids.
Range(ids) == {ids[i] : i \in 1..Len(ids)}

\* C35: when the flow has ended with SetupComplete, the next user data or
\* user confirmation message, no new start having come, leaves the records
\* and the file of the store as they are and starts no file operation.
C35_CompleteIsFinal ==
  [][(/\ Handles("UserDataResponse") \/ Handles("UserConfirmationResponse")
      /\ response = SetupComplete)
       => /\ config' = config
          /\ file' = file
          /\ pendingUnlink' = pendingUnlink]_vars

\* C36: a response to the device choice that follows the offer of the
\* candidates commits offered candidates only: every selected candidate that
\* is asked for its device information and committed with addOrUpdate is one
\* of the offered ones.
C36_OnlyOffered ==
  [][(DeviceChoice /\ Offered(response) # <<>>)
       => LET selected == Selected(msg'.inputValues, discoveredDevices)
          IN \A i \in 1..Len(io'.probed) :
               io'.probed[i].ok => selected[i][1] \in Range(Offered(response))]_vars

\* C34: as long as the abort is the last message the remote has sent, the
\* step is INIT and there are no candidates, also when a discovery that an
\* earlier message started is over only after the abort.
C34_AbortStays ==
  msg.type = "AbortDriverSetup" =>
    /\ setupStep = SetupSteps.INIT
    /\ discoveredDevices = <<>>

\* C23: a send() empties the remembered infrared payload, so the sendPronto
\* that is the session's next call is sent with the next command id, also
\* when its port and payload are those of the infrared message sent before
\* the send().
C23_RawClearsMemory ==
  /\ [](\A s \in Sessions : lastCall[s] = "raw" => lastSendIr[s] = <<>>)
  /\ [][\A s \in Sessions :
          (lastCall[s] = "raw" /\ IrSendStep(s))
            => /\ irId'[s] = Advanced(irId[s])
               /\ tx'[1].msg[3] = Advanced(irId[s])]_vars

\* A send() has followed an infrared message: the port of that message is
\* still remembered, its payload is not.
C23_Witness ==
  \E s \in Sessions :
    /\ lastCall[s] = "raw"
    /\ lastIr[s].sent
    /\ lastSendIrPort[s] = lastIr[s].port
    /\ lastSendIr[s] = <<>>
    /\ irId[s] = lastIr[s].id


(***************************************************************************)
(* Claims about the translator                                             *)
(***************************************************************************)

\* The number a four digit token stands for, read as hexadecimal.
HexValue(token) ==
  CASE token = Token("0", "0", "0", "0") -> 0
    [] token = Token("0", "0", "0", "1") -> 1
    [] token = Token("0", "0", "0", "2") -> 2
    [] token = Token("0", "0", "0", "A") -> 10
    [] token = Token("0", "0", "1", "0") -> 16
    [] token = Token("0", "0", "2", "2") -> 34
    [] token = Token("0", "0", "6", "D") -> 109
    [] token = Token("0", "0", "7", "0") -> 112
    [] token = Token("0", "0", "A", "B") -> 171
    [] token = Token("0", "1", "0", "0") -> 256
    [] token = Token("0", "1", "5", "5") -> 341
    [] token = Token("0", "6", "7", "9") -> 1657
    [] token = Token("5", "0", "0", "0") -> 20480

\* The decimal text of the numbers an output of these codes can hold.
Decimal(n) ==
  CASE n = 1 -> <<"1">>
    [] n = 2 -> <<"2">>
    [] n = 3 -> <<"3">>
    [] n = 16 -> <<"1", "6">>
    [] n = 69 -> <<"6", "9">>
    [] n = 171 -> <<"1", "7", "1">>
    [] n = 341 -> <<"3", "4", "1">>
    [] n = 1657 -> <<"1", "6", "5", "7">>
    [] n = 37010 -> <<"3", "7", "0", "1", "0">>
    [] n = 38029 -> <<"3", "8", "0", "2", "9">>

\* The carrier frequency of a period: 1000000 / (period * 0.241246), rounded.
CarrierOf(period) ==
  CASE period = 109 -> 38029
    [] period = 112 -> 37010

\* The code of the current state is a raw code, and it was translated.
RawConverted == converted.done /\ HexValue(code.tokens[1]) = 0

\* The offset a raw code asks for.
OffsetOf(tokens) ==
  IF Len(tokens) >= 4 /\ HexValue(tokens[3]) > 0 /\ HexValue(tokens[4]) > 0
  THEN HexValue(tokens[3]) * 2 + 1
  ELSE 1

\* The fields of a text between its commas.
RECURSIVE CommaFields(_, _)
CommaFields(text, field) ==
  IF text = <<>> THEN <<field>>
  ELSE IF Head(text) = "," THEN <<field>> \o CommaFields(Tail(text), <<>>)
  ELSE CommaFields(Tail(text), Append(field, Head(text)))

\* The texts with commas between them.
RECURSIVE CommaJoined(_)
CommaJoined(texts) ==
  IF texts = <<>> THEN <<>>
  ELSE IF Len(texts) = 1 THEN texts[1]
  ELSE texts[1] \o <<",">> \o CommaJoined(Tail(texts))

\* C28: for every raw code the third field of the output, the offset, is 1
\* when the second or the third decoded duration is zero or missing, and
\* twice the second duration plus 1 when both are positive.
C28_Offset ==
  RawConverted =>
    /\ ~converted.threw
    /\ Len(CommaFields(converted.value, <<>>)) >= 3
    /\ CommaFields(converted.value, <<>>)[3] = Decimal(OffsetOf(code.tokens))

\* A raw code whose second duration is positive and whose third is zero was
\* translated, and its offset is 1.
C28_Witness ==
  /\ RawConverted
  /\ Len(code.tokens) >= 4
  /\ HexValue(code.tokens[3]) = 34
  /\ HexValue(code.tokens[4]) = 0
  /\ CommaFields(converted.value, <<>>)[3] = <<"1">>

\* C29: a code whose first token does not decode, as hexadecimal, to 0 makes
\* the translation fail and produce no output.
C29_MarkerRejected ==
  (converted.done /\ HexValue(code.tokens[1]) # 0)
    => (converted.threw /\ converted.value = <<>>)

\* The head of an output: frequency, repeat count and offset.
HeadOf(c) ==
  <<Decimal(CarrierOf(HexValue(c.tokens[2]))), Decimal(c.repeatCount),
    Decimal(OffsetOf(c.tokens))>>

\* The durations of a code after the first three, in decimal.
TailOf(c) ==
  [i \in 1..(IF Len(c.tokens) > 4 THEN Len(c.tokens) - 4 ELSE 0) |->
     Decimal(HexValue(c.tokens[i + 4]))]

\* C30 as stated: the output of a raw code is the list frequency, repeat
\* count, offset and every duration after the first three, joined by commas.
C30_CommaJoined ==
  RawConverted =>
    /\ ~converted.threw
    /\ converted.value = CommaJoined(HeadOf(code) \o TailOf(code))

\* C30, amended: the output of a raw code is frequency, repeat count and
\* offset, each followed by a comma, and then the durations after the first
\* three in their order, in decimal and joined by commas; a code without such
\* durations gives an output that ends with the comma after the offset.  The
\* separators of the code make no difference.
C30_Composition ==
  RawConverted =>
    /\ ~converted.threw
    /\ converted.value
         = CommaJoined(HeadOf(code)) \o <<",">> \o CommaJoined(TailOf(code))

\* A raw code with three durations after the first three, separated by
\* commas, was translated.
C30_Witness ==
  /\ RawConverted
  /\ code.seps = <<",">>
  /\ Len(code.tokens) = 7
  /\ Len(CommaFields(converted.value, <<>>)) = 6

\* C31: for every raw code with carrier period p, the second token read as
\* hexadecimal, the first field of the output is 1000000 / (p * 0.241246)
\* rounded to the nearest integer; for 006D (109) it is 38029.
C31_Frequency ==
  RawConverted =>
    /\ ~converted.threw
    /\ CommaFields(converted.value, <<>>)[1]
         = Decimal(CarrierOf(HexValue(code.tokens[2])))
    /\ HexValue(code.tokens[2]) = 109
         => CommaFields(converted.value, <<>>)[1] = <<"3", "8", "0", "2", "9">>

\* A raw code with the period 006D was translated to the frequency 38029, a
\* quotient that is rounded up.
C31_Witness ==
  /\ RawConverted
  /\ code.tokens[2] = Token("0", "0", "6", "D")
  /\ CommaFields(converted.value, <<>>)[1] = <<"3", "8", "0", "2", "9">>

(***************************************************************************)
(* Claims about the connection of a session                                *)
(***************************************************************************)

\* The step is the call or the transport event `name` of session s.
LinkStep(name, s) == event' = [name |-> name, session |-> s]

\* C24: connect() on a session whose client is connected, or whose client is
\* in a state other than stopped and failed (an attempt to connect is in
\* flight), makes no request to the client and changes nothing of the
\* session; on a stopped or failed client it makes one request to open.
C24_ConnectNoOp ==
  [][\A s \in Sessions :
       LinkStep("connect", s) =>
         IF client[s] \in {"stopped", "failed"}
         THEN /\ Len(clientCalls') = 1
              /\ clientCalls'[1].session = s
              /\ clientCalls'[1].call = "connect"
         ELSE /\ clientCalls' = <<>>
              /\ emitted' = <<>>
              /\ client' = client
              /\ connected' = connected]_vars

\* connect() was called on a session whose client was connecting, and no
\* request was made.
C24_Witness ==
  /\ event.name = "connect"
  /\ client[event.session] = "connecting"
  /\ clientCalls = <<>>

\* C25: a connect event of the client of a session emits one STATE_CHANGED
\* with the id of the session's device and ONLINE, a close event one with the
\* id and OFFLINE, and an error event emits nothing and leaves the connected
\* flag of every session as it was.
C25_Notifications ==
  [][\A s \in Sessions :
       /\ LinkStep("clientConnect", s) =>
            emitted' = <<[id |-> sessionCfg[s].id, state |-> "ONLINE"]>>
       /\ LinkStep("clientClose", s) =>
            emitted' = <<[id |-> sessionCfg[s].id, state |-> "OFFLINE"]>>
       /\ LinkStep("clientError", s) =>
            (emitted' = <<>> /\ connected' = connected)]_vars

\* The client of a session that was online emitted an error: nothing was
\* notified and the session is still online.
C25_Witness ==
  /\ event.name = "clientError"
  /\ connected[event.session]
  /\ client[event.session] = "connected"
  /\ emitted = <<>>

\* The names of the devices of the family GC-100.
NamesOfGC100 == {"GC-100", "GC-100-12"}

\* C33: the request connect() makes to the client asks for reconnection, and
\* it asks for TCP keep-alive, with the initial delay of 10000 ms, unless the
\* device is one of the family GC-100, which the session tells by the name of
\* its record; for those keep-alive is switched off.
C33_KeepAlive ==
  \A i \in 1..Len(clientCalls) :
    clientCalls[i].call = "connect" =>
      /\ clientCalls[i].options.reconnect = TRUE
      /\ clientCalls[i].options.tcpKeepAlive
           = (sessionCfg[clientCalls[i].session].name \notin NamesOfGC100)
      /\ clientCalls[i].options.tcpKeepAliveInitialDelay = 10000

\* connect() has made its request for a device named GC-100-12: with
\* reconnection, without keep-alive.
C33_Witness ==
  /\ event.name = "connect"
  /\ sessionCfg[event.session].name = "GC-100-12"
  /\ Len(clientCalls) = 1
  /\ clientCalls[1].options.reconnect = TRUE
  /\ clientCalls[1].options.tcpKeepAlive = FALSE

(***************************************************************************)
(* Claims about several sessions                                           *)
(***************************************************************************)

\* The id and the memory of the last infrared send of session s.
Memory(s) == <<irId[s], lastSendIrPort[s], lastSendIr[s]>>

\* C26: a sendInfrared or a sendRaw on one session leaves the command id and
\* the memory of the last infrared send of every other session as they were,
\* a call that fails changes them for no session, and the id a session sends
\* is its own previous id or that id advanced by 1, whatever the other
\* sessions sent in between.
C26_Isolation ==
  [][/\ tx' = <<>> => \A s \in Sessions : Memory(s)' = Memory(s)
     /\ tx' # <<>> =>
          /\ \A o \in Sessions \ {tx'[1].session} : Memory(o)' = Memory(o)
          /\ IrSendStep(tx'[1].session) =>
               /\ tx'[1].msg[3] \in {irId[tx'[1].session], Advanced(irId[tx'[1].session])}
               /\ irId'[tx'[1].session] = tx'[1].msg[3]]_vars

\* Both sessions sent infrared messages and hold different ids and different
\* memories; the last message was one of "gc2".
C26_Witness ==
  /\ lastIr["gc1"].sent /\ lastIr["gc2"].sent
  /\ irId["gc1"] = 4 /\ irId["gc2"] = 2
  /\ lastSendIrPort["gc1"] # lastSendIrPort["gc2"]
  /\ tx # <<>> /\ tx[1].session = "gc2"

\* C32: a sendInfrared that dispatches hands one message to the transport:
\* sendir, the port of the call, the command id the session holds after the
\* call, and the payload; the repeat field of the payload is the repeat count
\* of the call when that is greater than 0 and 1 otherwise, also when the
\* call names no repeat count.
C32_WireMessage ==
  [][\A s \in Sessions :
       IrSendStep(s) =>
         /\ Len(tx') = 1
         /\ Len(tx'[1].msg) = 4
         /\ tx'[1].msg[2] = lastIr'[s].port
         /\ tx'[1].msg[3] = irId'[s]
         /\ tx'[1].msg[4] = lastIr'[s].payload
         /\ CommaFields(tx'[1].msg[4], <<>>)[2]
              = Decimal(IF lastIr'[s].repeat = undefined \/ lastIr'[s].repeat <= 0
                        THEN 1 ELSE lastIr'[s].repeat)]_vars

\* A sendInfrared without a repeat count was sent with the repeat field 1,
\* after one with the repeat count 2 was sent with the repeat field 2.
C32_Witness ==
  /\ tx # <<>> /\ tx[1].session = "gc1" /\ tx[1].msg[1] = "sendir"
  /\ lastIr["gc1"].repeat = undefined
  /\ CommaFields(tx[1].msg[4], <<>>)[2] = <<"1">>
  /\ lastIr["gc2"].sent /\ lastIr["gc2"].repeat = 2
  /\ CommaFields(lastIr["gc2"].payload, <<>>)[2] = <<"2">>

\* C40: a sendInfrared whose code the translator rejects hands nothing to the
\* transport and leaves the command id and the memory of the last infrared
\* send of the session as they were; the next infrared message of the session
\* is sent with the id it would have had without the failed call: the id of
\* the last infrared send when port and payload are those of that send and
\* no raw message came between, that id advanced by 1 otherwise.
C40_FailedTranslate ==
  [][\A s \in Sessions :
       /\ (lastCall'[s] = "threw" /\ lastCall[s] # "threw")
            => (tx' = <<>> /\ Memory(s)' = Memory(s) /\ lastIr'[s] = lastIr[s])
       /\ (lastCall[s] = "threw" /\ IrSendStep(s) /\ lastIr[s].sent)
            => tx'[1].msg[3]
                 = (IF /\ tx'[1].msg[2] = lastIr[s].port
                       /\ tx'[1].msg[4] = lastIr[s].payload
                       /\ lastSendIr[s] # <<>>
                    THEN lastIr[s].id
                    ELSE Advanced(lastIr[s].id))]_vars

\* A session sent an infrared message, and then a call of it with a code that
\* is not raw failed: nothing was handed to the transport, and the session
\* holds the id, the port and the payload of the message it sent.
C40_Witness ==
  \E s \in Sessions :
    /\ lastCall[s] = "threw"
    /\ tx = <<>>
    /\ lastIr[s].sent
    /\ irId[s] = lastIr[s].id /\ irId[s] > 1
    /\ lastSendIrPort[s] = lastIr[s].port
    /\ lastSendIr[s] = lastIr[s].payload

(***************************************************************************)
(* Claims about the driver                                                 *)
(***************************************************************************)

\* The ids that have a session in the map of the driver.
SessionIds == {configuredDevices[i] : i \in 1..Len(configuredDevices)}

\* C27: with the handlers of the driver installed, the ids that have a
\* session are the ids of the records in the store.
C27_SessionPerRecord == initialized => SessionIds = Ids(config)

\* The last step made the request `call` to the client of session id.
Requested(id, call) ==
  \E i \in 1..Len(clientCalls) :
    clientCalls[i].session = id /\ clientCalls[i].call = call

\* C38: when the store removes a record, or all of them, disconnect() is
\* called on the session of every removed device, and the session is dropped
\* from the map of the driver.
C38_RemovedDisconnected ==
  [][\A i \in 1..Len(trace') :
       (event'.name = "store" /\ trace'[i].ev = "removeHandler") =>
         \A id \in SessionIds :
           (trace'[i].device = null \/ trace'[i].device.id = id) =>
             /\ Requested(id, "close")'
             /\ id \notin SessionIds']_vars

\* C39: on CONNECT and on EXIT_STANDBY connect() is called on every session
\* in the map of the driver, which makes a request to every client that is
\* stopped or failed; on DISCONNECT and on ENTER_STANDBY disconnect() is
\* called on every session in the map, which makes a request to close to
\* every client.
C39_HostEvents ==
  [][/\ event'.name \in {"CONNECT", "EXIT_STANDBY"} =>
          \A id \in SessionIds :
            client[id] \in {"stopped", "failed"} => Requested(id, "connect")'
     /\ event'.name \in {"DISCONNECT", "ENTER_STANDBY"} =>
          \A id \in SessionIds : Requested(id, "close")']_vars

====
